---- MODULE Spec2Model ----
(***************************************************************************)
(* Verification model of the Click-Creators scraper server:                *)
(*   - the asynchronous scrape job engine (src/api_async.py, src/tasks.py) *)
(*   - the assignment pipeline and lifecycle sweeps (src/app.py)           *)
(* The persistent store (Supabase) and the external record store           *)
(* (Airtable) are modelled as variables; every store call of a handler is  *)
(* one step, and a store call may raise.                                   *)
(***************************************************************************)
EXTENDS Integers, Sequences, FiniteSets, TLC

\* ---------------------------------------------------------------- bounds
NumBatches == 2        \* K, the number of batch tasks of the job
MaxScraped == 1        \* profiles the upstream scraper returns per batch
NumProfiles == 3       \* profile ids in a tenant's pool
NumCalls == 2          \* concurrent calls of one endpoint
NumQueues == 2         \* N, what get_va_table_count returns
MaxPerTable == 2       \* largest profiles_per_table a request sends

\* ------------------------------------------------------ program constants
max_retries == 3       \* BaseTask.retry_kwargs
batch_size == 1000     \* aggregate_scrape_results insert chunk size
delete_chunk == 10     \* records per batch_delete call
account_batch_size == 50  \* batch_size of scrape_followers_async
default_per_account == 5  \* per_account_count without totalScrapeCount

Batches == 1..NumBatches
BaseIds == {"appA", "appB"}
Ids == 1..NumProfiles
Calls == 1..NumCalls

VARIABLES
    \* --- job engine ---
    hpc,        \* position of the submit handler scrape_followers_async
    job,        \* the scrape_jobs row of the job
    results,    \* the scrape_results rows of the job, in insertion order
    bpc,        \* position of each scrape_account_batch task
    btry,       \* self.request.retries of each batch task
    bout,       \* what the current attempt of each batch scraped / kept
    bcur,       \* local current_count of each batch task
    aggPc,      \* position of the aggregate_scrape_results task
    aggTry,     \* self.request.retries of the aggregation task
    aggIdx,     \* loop index i of the chunk insert loop, in chunks
    aggStarts,  \* number of times the aggregation body was entered
    \* --- persistent store and external record store ---
    pool,        \* global_usernames: <<base_id, id>> -> used
    campaigns,   \* campaigns rows
    assignments, \* daily_assignments rows
    airtable,    \* records of the Daily_Outreach_Table_XX tables of all bases
    \* --- daily_selection calls ---
    dpc,        \* position of each daily_selection call
    dbase,      \* base_id of the call
    dtarget,    \* target_count of the call
    dsel,       \* selected_profiles of the call (ids)
    dtodo,      \* ids the marking loop has not reached yet
    \* --- distribute_campaign calls ---
    xpc,        \* position of each distribute_campaign call
    xM,         \* profiles_per_table of the call
    xlist,      \* the rows of the shuffled list the loop has not reached yet
    xtab,       \* current_table
    xpos,       \* current_position
    \* --- delete_completed_after_delay call ---
    delPc,      \* position of the call
    delBase,    \* base_id of the call
    delRecs,    \* completed_records (assignment ids)
    delTables,  \* keys of by_table the external loop has not reached yet
    delTodo,    \* completed_records the internal loop has not reached yet
    delErrors,  \* tables whose external delete raised (the errors list)
    \* --- batch_insert_profiles calls ---
    ipc,        \* position of each batch_insert_profiles call
    ibase,      \* base_id of the call
    iin,        \* profiles of the call: ids in order, 0 for a profile without id
    iglobal,    \* global_records the fallback loop has not reached yet
    iraw,       \* inserted_raw
    iadded,     \* added_to_global
    iskipped,   \* skipped_existing
    ifault,     \* the store refused a call of an ingestion for another
                \* reason than a duplicate key
    \* --- airtable_sync calls (one at a time) ---
    ppc,        \* position of the call
    pbase,      \* base_id of the call
    ptodo,      \* keys of profiles_by_table the loop has not reached yet
    ptry,       \* retries of sync_with_retry for the current table
    tables_synced,
    records_synced,
    pruns,      \* number of airtable_sync calls made so far
    pidx,       \* i of sync_with_retry's loop: records of the table sent in this attempt
    \* --- sync_airtable_statuses call ---
    spc,        \* position of the call
    sbase,      \* base_id of the call
    stable,     \* table_num of the loop
    srecs,      \* records of all_records the loop has not reached yet
    sfound,     \* the record in hand and supabase_record.data[0] found for it
    serrors,    \* tables whose processing raised (the errors list)
    \* --- mark_unfollow_due call ---
    mpc,        \* position of the call
    mbase,      \* base_id of the call
    mrecs,      \* followed_records (assignment ids)
    mtodo,      \* followed_records the internal loop has not reached yet
    mtables,    \* keys of by_table the external loop has not reached yet
    merrors,    \* whether the errors list is non-empty
    \* --- run_daily, step 4 (cleanup) ---
    cpc,        \* position of the step
    ctodo,      \* seven_day_old rows the loop has not reached yet
    \* --- get_job_status / get_job_results call ---
    rpc,        \* position of the call, then its answer
    rkind,      \* which of the two endpoints was called
    rbase,      \* the tenant the caller belongs to
    rseen,      \* the status the call read from scrape_jobs
    rtotal,     \* total of the answer
    rout,       \* profiles of the answer
    \* --- daily_pipeline_orchestrator task ---
    opc,        \* position of the task
    obase,      \* the tenant whose client queued the run
    otry,       \* self.request.retries
    oM,         \* profiles_per_table
    osel,       \* selected_profiles: the global_usernames rows selected
    otodo,      \* rows the current loop has not reached yet
    otab,       \* current_table
    opos,       \* current_position
    \* --- tenant resolution of a request ---
    tpc,        \* position of the request, then its answer
    tep,        \* the endpoint the request was sent to
    thdr,       \* the X-Base-Id header, a string of characters
    tbody,      \* the base_id field of the JSON body
    tbase,      \* base_id as the handler resolved it
    \* --- scrape_followers_async request ---
    qpc,        \* position of the request, then its answer
    qaccounts,  \* accounts of the body
    qcount,     \* totalScrapeCount of the body, None when absent
    qper,       \* per_account_count
    qbatches,   \* account_batches
    qjob,       \* the scrape_jobs row the request inserted
    qtasks,     \* the batch tasks given to the chord
    \* --- ingest_profiles_async requests and their ingest_profiles_batch task ---
    gpc,        \* position of each request, then its answer
    gbase,      \* the tenant of the client that sent the request
    gin,        \* profiles of the request: ids in order, 0 for a profile without id
    gtask,      \* state of the request's task
    gtry,       \* self.request.retries of the task
    \* --- get_supabase_client, the threads of one process ---
    kpc,        \* position of each thread in the function
    klock,      \* the thread that holds _supabase_lock, 0 when free
    kclient,    \* _supabase_client: 0 for None, else the number of the instance
    kmade,      \* create_client calls that returned an instance
    kret        \* what each thread's call returned: 0 while it has not

jobVars == <<hpc, job, results, bpc, btry, bout, bcur, aggPc, aggTry, aggIdx, aggStarts>>
storeVars == <<pool, campaigns, assignments, airtable>>
selVars == <<dpc, dbase, dtarget, dsel, dtodo>>
distVars == <<xpc, xM, xlist, xtab, xpos>>
delVars == <<delPc, delBase, delRecs, delTables, delTodo, delErrors>>
ingVars == <<ipc, ibase, iin, iglobal, iraw, iadded, iskipped, ifault>>
pushVars == <<ppc, pbase, ptodo, ptry, tables_synced, records_synced, pruns, pidx>>
syncVars == <<spc, sbase, stable, srecs, sfound, serrors>>
markVars == <<mpc, mbase, mrecs, mtodo, mtables, merrors>>
cleanVars == <<cpc, ctodo>>
readVars == <<rpc, rkind, rbase, rseen, rtotal, rout>>
orchVars == <<opc, obase, otry, oM, osel, otodo, otab, opos>>
tenVars == <<tpc, tep, thdr, tbody, tbase>>
reqVars == <<qpc, qaccounts, qcount, qper, qbatches, qjob, qtasks>>
bgVars == <<gpc, gbase, gin, gtask, gtry>>
cliVars == <<kpc, klock, kclient, kmade, kret>>
apiVars == <<tenVars, reqVars, bgVars, cliVars>>
pipeVars == <<storeVars, selVars, distVars, delVars,
              ingVars, pushVars, syncVars, markVars, cleanVars, readVars, orchVars, apiVars>>

\* everything outside the assignment pipeline of src/app.py proper
restVars == <<jobVars, ingVars, pushVars, syncVars, markVars, cleanVars, readVars, orchVars, apiVars>>

vars == <<jobVars, pipeVars>>

\* ======================================================================
\*                              JOB ENGINE
\* ======================================================================

NoJob == [status |-> "none", base_id |-> "none", error_message |-> "null",
          profiles_scraped |-> 0, total_scraped |-> 0, total_filtered |-> 0,
          progress |-> 0]

\* complete_profiles of a batch that kept f profiles: ids <<b,1>> .. <<b,f>>
ProfilesOf(b, f) == [i \in 1..f |-> <<b, i>>]

RECURSIVE ConcatUpTo(_)
\* all_profiles after extending with the results of batches 1..n
ConcatUpTo(n) == IF n = 0 THEN << >>
                 ELSE ConcatUpTo(n - 1) \o ProfilesOf(n, bout[n].f)

all_profiles == ConcatUpTo(NumBatches)

RECURSIVE SumUpTo(_, _)
SumUpTo(n, field) == IF n = 0 THEN 0
                     ELSE SumUpTo(n - 1, field)
                          + (IF field = "s" THEN bout[n].s ELSE bout[n].f)

total_scraped == SumUpTo(NumBatches, "s")
total_filtered == SumUpTo(NumBatches, "f")

\* all_profiles[i:i + batch_size] for i = idx * batch_size
Chunk(idx) == SubSeq(all_profiles, idx * batch_size + 1,
                     IF (idx + 1) * batch_size < Len(all_profiles)
                     THEN (idx + 1) * batch_size ELSE Len(all_profiles))

BatchFinal == {"success", "failure"}

\* Celery chord: the body is sent once every header task has a final
\* result, and only if all of them succeeded; a failed header task puts the
\* chord in error and the body is never run.
ChordPartReturn(nbpc) ==
    IF \A b \in Batches : nbpc[b] \in BatchFinal
    THEN IF \A b \in Batches : nbpc[b] = "success" THEN "queued" ELSE "chord_error"
    ELSE aggPc

\* a task raised: BaseTask.autoretry_for re-queues it up to max_retries times
BatchRaise(b) ==
    IF btry[b] < max_retries
    THEN /\ bpc' = [bpc EXCEPT ![b] = "queued"]
         /\ btry' = [btry EXCEPT ![b] = @ + 1]
         /\ aggPc' = aggPc
    ELSE /\ bpc' = [bpc EXCEPT ![b] = "failure"]
         /\ btry' = btry
         /\ aggPc' = ChordPartReturn([bpc EXCEPT ![b] = "failure"])

BatchReturn(b) ==
    /\ bpc' = [bpc EXCEPT ![b] = "success"]
    /\ aggPc' = ChordPartReturn([bpc EXCEPT ![b] = "success"])
    /\ btry' = btry

\* no call of the pipeline endpoints is in progress
SelIdle ==
    /\ dpc = [c \in Calls |-> "idle"]
    /\ dbase = [c \in Calls |-> "appA"]
    /\ dtarget = [c \in Calls |-> 0]
    /\ dsel = [c \in Calls |-> {}]
    /\ dtodo = [c \in Calls |-> {}]

DistIdle ==
    /\ xpc = [x \in Calls |-> "idle"]
    /\ xM = [x \in Calls |-> 0]
    /\ xlist = [x \in Calls |-> {}]
    /\ xtab = [x \in Calls |-> 0]
    /\ xpos = [x \in Calls |-> 0]

DelIdle ==
    /\ delPc = "idle"
    /\ delBase = "appA"
    /\ delRecs = {}
    /\ delTables = {}
    /\ delTodo = {}
    /\ delErrors = {}

IngIdle ==
    /\ ipc = [c \in Calls |-> "idle"]
    /\ ibase = [c \in Calls |-> "appA"]
    /\ iin = [c \in Calls |-> << >>]
    /\ iglobal = [c \in Calls |-> << >>]
    /\ iraw = [c \in Calls |-> 0]
    /\ iadded = [c \in Calls |-> 0]
    /\ iskipped = [c \in Calls |-> 0]
    /\ ifault = FALSE

PushIdle ==
    /\ ppc = "idle"
    /\ pbase = "appA"
    /\ ptodo = {}
    /\ ptry = 0
    /\ tables_synced = 0
    /\ records_synced = 0
    /\ pruns = 0
    /\ pidx = 0

NoRecord == [base |-> "none", table |-> 0, id |-> 0, status |-> "none", n |-> 0]

SyncIdle ==
    /\ spc = "idle"
    /\ sbase = "appA"
    /\ stable = 0
    /\ srecs = {}
    /\ sfound = [rec |-> NoRecord, row |-> <<0, 0>>, status |-> "none"]
    /\ serrors = {}

MarkIdle ==
    /\ mpc = "idle"
    /\ mbase = "appA"
    /\ mrecs = {}
    /\ mtodo = {}
    /\ mtables = {}
    /\ merrors = FALSE

CleanIdle ==
    /\ cpc = "idle"
    /\ ctodo = {}

ReadIdle ==
    /\ rpc = "idle"
    /\ rkind = "none"
    /\ rbase = "appA"
    /\ rseen = "none"
    /\ rtotal = 0
    /\ rout = << >>

OrchIdle ==
    /\ opc = "idle"
    /\ obase = "appA"
    /\ otry = 0
    /\ oM = 0
    /\ osel = {}
    /\ otodo = {}
    /\ otab = 0
    /\ opos = 0

TenIdle ==
    /\ tpc = "idle"
    /\ tep = "none"
    /\ thdr = << >>
    /\ tbody = << >>
    /\ tbase = << >>

ReqIdle ==
    /\ qpc = "idle"
    /\ qaccounts = << >>
    /\ qcount = << >>
    /\ qper = 0
    /\ qbatches = << >>
    /\ qjob = << >>
    /\ qtasks = << >>

BgIdle ==
    /\ gpc = [c \in Calls |-> "idle"]
    /\ gbase = [c \in Calls |-> "appA"]
    /\ gin = [c \in Calls |-> << >>]
    /\ gtask = [c \in Calls |-> "none"]
    /\ gtry = [c \in Calls |-> 0]

NumThreads == 3        \* threads of the process that call get_supabase_client
Threads == 1..NumThreads

\* module import: _supabase_client = None, the lock free
CliIdle ==
    /\ kpc = [t \in Threads |-> "idle"]
    /\ klock = 0
    /\ kclient = 0
    /\ kmade = 0
    /\ kret = [t \in Threads |-> 0]

\* no call of the components below is in progress
RestIdle ==
    /\ BgIdle
    /\ CliIdle
    /\ TenIdle
    /\ ReqIdle
    /\ IngIdle
    /\ PushIdle
    /\ SyncIdle
    /\ MarkIdle
    /\ CleanIdle
    /\ ReadIdle
    /\ OrchIdle

StoreEmpty ==
    /\ pool = << >>
    /\ campaigns = {}
    /\ assignments = << >>
    /\ airtable = {}

JobInit ==
    /\ StoreEmpty
    /\ SelIdle
    /\ DistIdle
    /\ DelIdle
    /\ RestIdle
    /\ hpc = "start"
    /\ job = NoJob
    /\ results = << >>
    /\ bpc = [b \in Batches |-> "unsent"]
    /\ btry = [b \in Batches |-> 0]
    /\ bout = [b \in Batches |-> [s |-> 0, f |-> 0]]
    /\ bcur = [b \in Batches |-> 0]
    /\ aggPc = "none"
    /\ aggTry = 0
    /\ aggIdx = 0
    /\ aggStarts = 0

\* ---- scrape_followers_async (submit handler) ----

\* insert the scrape_jobs row with status queued
SubmitInsert ==
    /\ hpc = "start"
    /\ \/ /\ \E b \in BaseIds :
                job' = [NoJob EXCEPT !.status = "queued", !.base_id = b]
          /\ hpc' = "inserted"
       \/ /\ hpc' = "error"          \* the store raised: 500
          /\ job' = job
    /\ UNCHANGED <<results, bpc, btry, bout, bcur, aggPc, aggTry, aggIdx, aggStarts>>
    /\ UNCHANGED pipeVars

\* chord(batch_tasks)(aggregate_scrape_results.s(job_id))
SubmitChord ==
    /\ hpc = "inserted"
    /\ hpc' = "enqueued"
    /\ bpc' = [b \in Batches |-> "queued"]
    /\ UNCHANGED <<job, results, btry, bout, bcur, aggPc, aggTry, aggIdx, aggStarts>>
    /\ UNCHANGED pipeVars

\* update status = processing, unconditionally on the current status
SubmitProcessing ==
    /\ hpc = "enqueued"
    /\ \/ /\ job' = [job EXCEPT !.status = "processing"]
          /\ hpc' = "done"
       \/ /\ hpc' = "error"
          /\ job' = job
    /\ UNCHANGED <<results, bpc, btry, bout, bcur, aggPc, aggTry, aggIdx, aggStarts>>
    /\ UNCHANGED pipeVars

\* ---- scrape_account_batch ----

\* steps 1-4: scrape, detect gender, filter, format
BatchScrape(b) ==
    /\ bpc[b] = "queued"
    /\ \E s \in 0..MaxScraped : \E f \in 0..s :
          bout' = [bout EXCEPT ![b] = [s |-> s, f |-> f]]
    /\ bpc' = [bpc EXCEPT ![b] = "scraped"]
    /\ UNCHANGED <<hpc, job, results, btry, bcur, aggPc, aggTry, aggIdx, aggStarts>>
    /\ UNCHANGED pipeVars

\* the scraper (or the client) raised: the outer except Exception handler
BatchThrow(b) ==
    /\ bpc[b] = "queued"
    /\ bpc' = [bpc EXCEPT ![b] = "except"]
    /\ UNCHANGED <<hpc, job, results, btry, bout, bcur, aggPc, aggTry, aggIdx, aggStarts>>
    /\ UNCHANGED pipeVars

\* SoftTimeLimitExceeded while scraping: re-raised without touching the job
BatchSoftTimeout(b) ==
    /\ bpc[b] = "queued"
    /\ BatchRaise(b)
    /\ UNCHANGED <<hpc, job, results, bout, bcur, aggTry, aggIdx, aggStarts>>
    /\ UNCHANGED pipeVars

\* select profiles_scraped; a failure is logged and the task returns
BatchReadCount(b) ==
    /\ bpc[b] = "scraped"
    /\ \/ /\ bcur' = [bcur EXCEPT ![b] = job.profiles_scraped]
          /\ bpc' = [bpc EXCEPT ![b] = "counted"]
          /\ UNCHANGED <<btry, aggPc>>
       \/ /\ BatchReturn(b)
          /\ bcur' = bcur
    /\ UNCHANGED <<hpc, job, results, bout, aggTry, aggIdx, aggStarts>>
    /\ UNCHANGED pipeVars

\* update profiles_scraped = current_count + len(complete_profiles); return
BatchWriteCount(b) ==
    /\ bpc[b] = "counted"
    /\ \/ job' = [job EXCEPT !.profiles_scraped = bcur[b] + bout[b].f]
       \/ job' = job
    /\ BatchReturn(b)
    /\ bcur' = [bcur EXCEPT ![b] = 0]      \* the local goes out of scope
    /\ UNCHANGED <<hpc, results, bout, aggTry, aggIdx, aggStarts>>
    /\ UNCHANGED pipeVars

\* except Exception: write status failed (errors swallowed), then raise
BatchExcept(b) ==
    /\ bpc[b] = "except"
    /\ \/ job' = [job EXCEPT !.status = "failed", !.error_message = "batch"]
       \/ job' = job
    /\ BatchRaise(b)
    /\ UNCHANGED <<hpc, results, bout, bcur, aggTry, aggIdx, aggStarts>>
    /\ UNCHANGED pipeVars

\* ---- aggregate_scrape_results ----

AggRaise ==
    IF aggTry < max_retries
    THEN aggPc' = "queued" /\ aggTry' = aggTry + 1
    ELSE aggPc' = "failure" /\ aggTry' = aggTry

\* the body is entered with the chord's batch_results
AggStart ==
    /\ aggPc = "queued"
    /\ aggPc' = "inserting"
    /\ aggIdx' = 0
    /\ aggStarts' = aggStarts + 1
    /\ UNCHANGED <<hpc, job, results, bpc, btry, bout, bcur, aggTry>>
    /\ UNCHANGED pipeVars

\* one iteration of the chunk loop; a rejected insert is logged and skipped
AggInsertChunk ==
    /\ aggPc = "inserting"
    /\ aggIdx * batch_size < Len(all_profiles)
    /\ \/ results' = results \o Chunk(aggIdx)
       \/ results' = results
    /\ aggIdx' = aggIdx + 1
    /\ UNCHANGED <<hpc, job, bpc, btry, bout, bcur, aggPc, aggTry, aggStarts>>
    /\ UNCHANGED pipeVars

\* after the loop: update the job to completed
AggComplete ==
    /\ aggPc = "inserting"
    /\ aggIdx * batch_size >= Len(all_profiles)
    /\ \/ /\ job' = [job EXCEPT !.status = "completed",
                                !.total_scraped = total_scraped,
                                !.total_filtered = total_filtered,
                                !.profiles_scraped = Len(all_profiles),
                                !.progress = 100]
          /\ aggPc' = "done"
       \/ /\ job' = job
          /\ aggPc' = "except"
    /\ UNCHANGED <<hpc, results, bpc, btry, bout, bcur, aggTry, aggIdx, aggStarts>>
    /\ UNCHANGED pipeVars

\* except Exception: write status failed (errors swallowed), then raise
AggExcept ==
    /\ aggPc = "except"
    /\ \/ job' = [job EXCEPT !.status = "failed", !.error_message = "aggregation"]
       \/ job' = job
    /\ AggRaise
    /\ UNCHANGED <<hpc, results, bpc, btry, bout, bcur, aggIdx, aggStarts>>
    /\ UNCHANGED pipeVars

\* the job engine at rest, for the specifications of the other components
JobIdle ==
    /\ hpc = "start"
    /\ job = NoJob
    /\ results = << >>
    /\ bpc = [b \in Batches |-> "unsent"]
    /\ btry = [b \in Batches |-> 0]
    /\ bout = [b \in Batches |-> [s |-> 0, f |-> 0]]
    /\ bcur = [b \in Batches |-> 0]
    /\ aggPc = "none"
    /\ aggTry = 0
    /\ aggIdx = 0
    /\ aggStarts = 0

JobNext ==
    \/ SubmitInsert
    \/ SubmitChord
    \/ SubmitProcessing
    \/ \E b \in Batches : BatchScrape(b)
    \/ \E b \in Batches : BatchThrow(b)
    \/ \E b \in Batches : BatchSoftTimeout(b)
    \/ \E b \in Batches : BatchReadCount(b)
    \/ \E b \in Batches : BatchWriteCount(b)
    \/ \E b \in Batches : BatchExcept(b)
    \/ AggStart
    \/ AggInsertChunk
    \/ AggComplete
    \/ AggExcept

SpecJob == JobInit /\ [][JobNext]_vars

\* The submit handler runs to its end and the worker takes every task the
\* broker holds: with task_acks_late and task_reject_on_worker_lost a task
\* is redelivered until it has returned or raised, and a retry is a new
\* task in the queue.
SpecJobLive == JobInit /\ [][JobNext]_vars /\ WF_vars(JobNext)

\* ----------------------------------------------------------------------
\*                        job engine: properties
\* ----------------------------------------------------------------------

Terminal == {"completed", "failed"}

\* the batch task raised at least once (a retry only follows a raise)
Threw(b) == btry[b] > 0 \/ bpc[b] \in {"except", "failure"}

AllBatchesFinal == \A b \in Batches : bpc[b] \in BatchFinal

AggStarted == aggPc \in {"inserting", "except", "done", "failure"} \/ aggStarts > 0

\* every task of the job and the submit handler have come to rest
JobQuiescent ==
    /\ hpc \in {"done", "error"}
    /\ AllBatchesFinal
    /\ aggPc \in {"chord_error", "done", "failure"}

\* the rows of scrape_results as a set of profile ids
ResultIds == {results[i] : i \in 1..Len(results)}

\* the filtered profiles returned by the batches that succeeded
SuccessfulIds == UNION {{<<b, i>> : i \in 1..bout[b].f} :
                        b \in {c \in Batches : bpc[c] = "success"}}

\* C1: the Job row enters a terminal status at most once: a job that is
\* completed is never rewritten to failed, nor a failed one to completed,
\* whatever the interleaving of batches, their retries and the aggregation.
C1_TerminalAtMostOnce ==
    [][/\ (job.status = "failed" => job'.status # "completed")
       /\ (job.status = "completed" => job'.status # "failed")]_vars

\* C2: the aggregation body never runs before all K batch tasks have
\* finished, and it is entered at most once per job.
C2_AggAfterAllAndOnce ==
    /\ (AggStarted => AllBatchesFinal)
    /\ aggStarts <= 1

\* C3: when a batch task has thrown and every batch task has come to its
\* final result, the aggregation task is scheduled or has run (the finite
\* form of "the barrier is still eventually reached").
C3_BarrierStillReached ==
    (AllBatchesFinal /\ \E b \in Batches : Threw(b))
        => aggPc \in {"queued", "inserting", "except", "done", "failure"}

\* C4: when the job has come to rest with at least one batch failed and the
\* others succeeded, its status is failed with an error message and the
\* result rows are exactly the filtered profiles of the successful batches.
C4_PartialResultsOnFailure ==
    (JobQuiescent /\ \E b \in Batches : bpc[b] = "failure")
        => /\ job.status = "failed"
           /\ job.error_message # "null"
           /\ ResultIds = SuccessfulIds
           /\ Len(results) = Cardinality(SuccessfulIds)

\* C5: when all K batches succeeded, the step that ends the aggregation
\* leaves the Job completed with progress 100, total_scraped and
\* total_filtered the sums of the batch results, and as many result rows as
\* total_filtered.
C5_CompletedTotals ==
    [][(aggPc # "done" /\ aggPc' = "done")
         => /\ job'.status = "completed"
            /\ job'.progress = 100
            /\ job'.total_scraped = total_scraped
            /\ job'.total_filtered = total_filtered
            /\ Len(results') = job'.total_filtered]_vars

\* ======================================================================
\*                 CAMPAIGN SELECTOR (daily_selection)
\* ======================================================================

Min(a, b) == IF a < b THEN a ELSE b

SetMin(S) == CHOOSE x \in S : \A y \in S : x <= y

\* global_usernames rows of base b with used = False
Unused(b) == {i \in Ids : <<b, i>> \in DOMAIN pool /\ ~pool[<<b, i>>]}

\* the placeholder row daily_selection builds for a selected profile
Placeholder(c, b, i) ==
    [assignment_id |-> <<c, i>>, campaign_id |-> c, base_id |-> b, id |-> i,
     va_table_number |-> 0, position |-> 0, status |-> "pending",
     asgOld |-> FALSE, updOld |-> FALSE]

DSFail(c) ==
    /\ dpc' = [dpc EXCEPT ![c] = "error"]
    /\ dsel' = [dsel EXCEPT ![c] = {}]
    /\ dtodo' = [dtodo EXCEPT ![c] = {}]

\* the pool after ingestion: every profile of every tenant unused
SelInit ==
    /\ pool = [k \in BaseIds \X Ids |-> FALSE]
    /\ campaigns = {}
    /\ assignments = << >>
    /\ airtable = {}
    /\ SelIdle
    /\ DistIdle
    /\ DelIdle
    /\ JobIdle
    /\ RestIdle

\* step 1: resolve base_id and target_count, insert the campaigns row
DSCreateCampaign(c) ==
    /\ dpc[c] = "idle"
    /\ \E b \in BaseIds : \E m \in 1..MaxPerTable :
         /\ dbase' = [dbase EXCEPT ![c] = b]
         /\ dtarget' = [dtarget EXCEPT ![c] = NumQueues * m]
         /\ \/ /\ campaigns' = campaigns \cup
                     {[campaign_id |-> c, base_id |-> b,
                       total_assigned |-> 0, status |-> FALSE]}
               /\ dpc' = [dpc EXCEPT ![c] = "created"]
            \/ /\ campaigns' = campaigns
               /\ dpc' = [dpc EXCEPT ![c] = "error"]
    /\ UNCHANGED <<pool, assignments, airtable, dsel, dtodo>>
    /\ UNCHANGED <<restVars, distVars, delVars>>

\* step 2 without the test for an empty result
DSSelect_NoGuard(c) ==
    /\ dpc[c] = "created"
    /\ \/ /\ \E S \in SUBSET Unused(dbase[c]) :
               /\ Cardinality(S) = Min(Cardinality(Unused(dbase[c])), dtarget[c])
               /\ dsel' = [dsel EXCEPT ![c] = S]
               /\ dtodo' = [dtodo EXCEPT ![c] = S]
          /\ dpc' = [dpc EXCEPT ![c] = "selected"]
       \/ DSFail(c)
    /\ UNCHANGED <<storeVars, dbase, dtarget>>
    /\ UNCHANGED <<restVars, distVars, delVars>>

\* step 2: select up to target_count unused profiles of the base
DSSelect(c) ==
    /\ dpc[c] = "created"
    /\ \/ /\ Unused(dbase[c]) = {}
          /\ dpc' = [dpc EXCEPT ![c] = "noprofiles"]
          /\ UNCHANGED <<dsel, dtodo>>
       \/ /\ Unused(dbase[c]) # {}
          /\ \E S \in SUBSET Unused(dbase[c]) :
               /\ Cardinality(S) = Min(Cardinality(Unused(dbase[c])), dtarget[c])
               /\ dsel' = [dsel EXCEPT ![c] = S]
               /\ dtodo' = [dtodo EXCEPT ![c] = S]
          /\ dpc' = [dpc EXCEPT ![c] = "selected"]
       \/ DSFail(c)
    /\ UNCHANGED <<storeVars, dbase, dtarget>>
    /\ UNCHANGED <<restVars, distVars, delVars>>

\* the marking loop with the update of used left out
DSMark_NoFlip(c) ==
    /\ dpc[c] = "selected"
    /\ dtodo[c] # {}
    /\ \/ /\ pool' = pool
          /\ dtodo' = [dtodo EXCEPT ![c] = @ \ {SetMin(dtodo[c])}]
          /\ UNCHANGED <<dpc, dsel>>
       \/ /\ DSFail(c)
          /\ pool' = pool
    /\ UNCHANGED <<campaigns, assignments, airtable, dbase, dtarget>>
    /\ UNCHANGED <<restVars, distVars, delVars>>

\* step 3, one iteration: update used = True where id and base_id match
DSMark(c) ==
    /\ dpc[c] = "selected"
    /\ dtodo[c] # {}
    /\ \/ /\ pool' = [pool EXCEPT ![<<dbase[c], SetMin(dtodo[c])>>] = TRUE]
          /\ dtodo' = [dtodo EXCEPT ![c] = @ \ {SetMin(dtodo[c])}]
          /\ UNCHANGED <<dpc, dsel>>
       \/ /\ DSFail(c)
          /\ pool' = pool
    /\ UNCHANGED <<campaigns, assignments, airtable, dbase, dtarget>>
    /\ UNCHANGED <<restVars, distVars, delVars>>

\* step 4: insert the placeholder assignments in one call
DSInsert(c) ==
    /\ dpc[c] = "selected"
    /\ dtodo[c] = {}
    /\ \/ /\ assignments' =
                [a \in DOMAIN assignments \cup {<<c, i>> : i \in dsel[c]} |->
                    IF a \in DOMAIN assignments THEN assignments[a]
                    ELSE Placeholder(c, dbase[c], a[2])]
          /\ dpc' = [dpc EXCEPT ![c] = "inserted"]
          /\ UNCHANGED <<dsel, dtodo>>
       \/ /\ DSFail(c)
          /\ assignments' = assignments
    /\ UNCHANGED <<pool, campaigns, airtable, dbase, dtarget>>
    /\ UNCHANGED <<restVars, distVars, delVars>>

\* step 5 writing the target count instead of the number selected
DSUpdateCampaign_Target(c) ==
    /\ dpc[c] = "inserted"
    /\ \/ /\ campaigns' = {IF k.campaign_id = c
                           THEN [k EXCEPT !.total_assigned = dtarget[c]]
                           ELSE k : k \in campaigns}
          /\ dpc' = [dpc EXCEPT ![c] = "done"]
          /\ UNCHANGED <<dsel, dtodo>>
       \/ /\ DSFail(c)
          /\ campaigns' = campaigns
    /\ UNCHANGED <<pool, assignments, airtable, dbase, dtarget>>
    /\ UNCHANGED <<restVars, distVars, delVars>>

\* step 5: update campaigns.total_assigned where campaign_id matches
DSUpdateCampaign(c) ==
    /\ dpc[c] = "inserted"
    /\ \/ /\ campaigns' = {IF k.campaign_id = c
                           THEN [k EXCEPT !.total_assigned = Cardinality(dsel[c])]
                           ELSE k : k \in campaigns}
          /\ dpc' = [dpc EXCEPT ![c] = "done"]
          /\ UNCHANGED <<dsel, dtodo>>
       \/ /\ DSFail(c)
          /\ campaigns' = campaigns
    /\ UNCHANGED <<pool, assignments, airtable, dbase, dtarget>>
    /\ UNCHANGED <<restVars, distVars, delVars>>

SelNext ==
    \/ \E c \in Calls : DSCreateCampaign(c)
    \/ \E c \in Calls : DSSelect(c)
    \/ \E c \in Calls : DSMark(c)
    \/ \E c \in Calls : DSInsert(c)
    \/ \E c \in Calls : DSUpdateCampaign(c)

\* any interleaving of the daily_selection calls
SpecSelect == SelInit /\ [][SelNext]_vars

DSResting(c) == dpc[c] \in {"idle", "done", "noprofiles", "error"}

\* a call is accepted only when no other call is in progress
DSCreateCampaignSeq(c) ==
    /\ \A d \in Calls \ {c} : DSResting(d)
    /\ DSCreateCampaign(c)

SelSeqNext ==
    \/ \E c \in Calls : DSCreateCampaignSeq(c)
    \/ \E c \in Calls : DSSelect(c)
    \/ \E c \in Calls : DSMark(c)
    \/ \E c \in Calls : DSInsert(c)
    \/ \E c \in Calls : DSUpdateCampaign(c)

\* the daily_selection calls run one after the other
SpecSelectSeq == SelInit /\ [][SelSeqNext]_vars

\* ----------------------------------------------------------------------
\*                     campaign selector: properties
\* ----------------------------------------------------------------------

\* profile ids that have an assignment in campaign c
AssignedIn(c) == {assignments[a].id : a \in {x \in DOMAIN assignments :
                                               assignments[x].campaign_id = c}}

\* C6: under any interleaving of daily_selection calls for one tenant, no
\* profile has a placeholder assignment in two campaigns.
C6_ConcurrentSelectDisjoint ==
    \A a1, a2 \in DOMAIN assignments :
        (/\ assignments[a1].base_id = assignments[a2].base_id
         /\ assignments[a1].id = assignments[a2].id
         /\ assignments[a1].va_table_number = 0
         /\ assignments[a2].va_table_number = 0)
            => assignments[a1].campaign_id = assignments[a2].campaign_id

\* C7: for daily_selection calls of one tenant run one after the other, the
\* profile sets the calls selected are disjoint, and every profile a call
\* selected is used = True by the time another call of the tenant selects.
C7_SequentialSelectDisjoint ==
    \A c, d \in Calls :
        (c # d /\ dbase[c] = dbase[d])
            => /\ AssignedIn(c) \cap AssignedIn(d) = {}
               /\ (dpc[d] = "selected" /\ dpc[c] \in {"done", "error"})
                     => /\ dsel[c] \cap dsel[d] = {}
                        /\ \A i \in dsel[c] : pool[<<dbase[c], i>>]

\* both calls of one tenant succeeded and each selected something
C7_Witness ==
    \E c, d \in Calls :
        /\ c # d /\ dbase[c] = dbase[d]
        /\ dpc[c] = "done" /\ dpc[d] = "done"
        /\ AssignedIn(c) # {} /\ AssignedIn(d) # {}

\* ======================================================================
\*                   DISTRIBUTOR (distribute_campaign)
\* ======================================================================

\* the campaign the distribute calls are made on
TheCampaign == 1

\* rows of the campaign, scoped to the base, with va_table_number = 0
Unassigned(b) == {a \in DOMAIN assignments :
                     /\ assignments[a].campaign_id = TheCampaign
                     /\ assignments[a].base_id = b
                     /\ assignments[a].va_table_number = 0}

\* a daily_selection of tenant appA has succeeded with T profiles
DistInit ==
    \E T \in 1..NumProfiles :
        /\ pool = [k \in {"appA"} \X (1..T) |-> TRUE]
        /\ campaigns = {[campaign_id |-> TheCampaign, base_id |-> "appA",
                         total_assigned |-> T, status |-> FALSE]}
        /\ assignments = [a \in {TheCampaign} \X (1..T) |->
                             Placeholder(TheCampaign, "appA", a[2])]
        /\ airtable = {}
        /\ SelIdle
        /\ DistIdle
        /\ DelIdle
        /\ JobIdle
        /\ RestIdle

\* steps 1-3: verify the campaign, fetch the unassigned rows, shuffle.
\* random.shuffle can leave the rows in any order, so the list is kept as
\* the set of rows not reached yet and each iteration takes any of them.
DistFetch(x) ==
    /\ xpc[x] = "idle"
    /\ \E b \in BaseIds : \E m \in 1..MaxPerTable :
         \/ /\ ~\E k \in campaigns : k.campaign_id = TheCampaign /\ k.base_id = b
            /\ xpc' = [xpc EXCEPT ![x] = "notfound"]
            /\ UNCHANGED <<xM, xlist, xtab, xpos>>
         \/ /\ \E k \in campaigns : k.campaign_id = TheCampaign /\ k.base_id = b
            /\ Unassigned(b) = {}
            /\ xpc' = [xpc EXCEPT ![x] = "rejected"]
            /\ UNCHANGED <<xM, xlist, xtab, xpos>>
         \/ /\ \E k \in campaigns : k.campaign_id = TheCampaign /\ k.base_id = b
            /\ Unassigned(b) # {}
            /\ xlist' = [xlist EXCEPT ![x] = Unassigned(b)]
            /\ xM' = [xM EXCEPT ![x] = m]
            /\ xtab' = [xtab EXCEPT ![x] = 1]
            /\ xpos' = [xpos EXCEPT ![x] = 1]
            /\ xpc' = [xpc EXCEPT ![x] = "loop"]
         \/ /\ xpc' = [xpc EXCEPT ![x] = "error"]
            /\ UNCHANGED <<xM, xlist, xtab, xpos>>
    /\ UNCHANGED <<storeVars, selVars, restVars, delVars>>

\* the loop with an update that writes the table number alone
DistUpdate_TableOnly(x) ==
    /\ xpc[x] = "loop"
    /\ \/ \E a \in xlist[x] :
          /\ assignments' =
                IF a \in DOMAIN assignments
                THEN [assignments EXCEPT ![a].va_table_number = xtab[x]]
                ELSE assignments
          /\ xpos' = [xpos EXCEPT ![x] =
                        IF xpos[x] + 1 > xM[x] THEN 1 ELSE xpos[x] + 1]
          /\ xtab' = [xtab EXCEPT ![x] =
                        IF xpos[x] + 1 > xM[x] THEN xtab[x] + 1 ELSE xtab[x]]
          /\ IF (xpos[x] + 1 > xM[x] /\ xtab[x] + 1 > NumQueues)
                \/ xlist[x] = {a}
             THEN /\ xpc' = [xpc EXCEPT ![x] = "done"]
                  /\ xlist' = [xlist EXCEPT ![x] = {}]
             ELSE /\ xpc' = xpc
                  /\ xlist' = [xlist EXCEPT ![x] = @ \ {a}]
          /\ xM' = xM
       \/ /\ xpc' = [xpc EXCEPT ![x] = "error"]
          /\ xlist' = [xlist EXCEPT ![x] = {}]
          /\ xtab' = [xtab EXCEPT ![x] = 0]
          /\ xpos' = [xpos EXCEPT ![x] = 0]
          /\ UNCHANGED <<assignments, xM>>
    /\ UNCHANGED <<pool, campaigns, airtable, selVars, restVars, delVars>>

\* the loop with the table-full test off by one (>= instead of >)
DistUpdate_FullAtM(x) ==
    /\ xpc[x] = "loop"
    /\ \/ \E a \in xlist[x] :
          /\ assignments' =
                IF a \in DOMAIN assignments
                THEN [assignments EXCEPT ![a].va_table_number = xtab[x],
                                         ![a].position = xpos[x]]
                ELSE assignments
          /\ xpos' = [xpos EXCEPT ![x] =
                        IF xpos[x] + 1 >= xM[x] THEN 1 ELSE xpos[x] + 1]
          /\ xtab' = [xtab EXCEPT ![x] =
                        IF xpos[x] + 1 >= xM[x] THEN xtab[x] + 1 ELSE xtab[x]]
          /\ IF (xpos[x] + 1 >= xM[x] /\ xtab[x] + 1 > NumQueues)
                \/ xlist[x] = {a}
             THEN /\ xpc' = [xpc EXCEPT ![x] = "done"]
                  /\ xlist' = [xlist EXCEPT ![x] = {}]
             ELSE /\ xpc' = xpc
                  /\ xlist' = [xlist EXCEPT ![x] = @ \ {a}]
          /\ xM' = xM
       \/ /\ xpc' = [xpc EXCEPT ![x] = "error"]
          /\ xlist' = [xlist EXCEPT ![x] = {}]
          /\ xtab' = [xtab EXCEPT ![x] = 0]
          /\ xpos' = [xpos EXCEPT ![x] = 0]
          /\ UNCHANGED <<assignments, xM>>
    /\ UNCHANGED <<pool, campaigns, airtable, selVars, restVars, delVars>>

\* step 4, one iteration: update the row by assignment_id, advance the
\* position, move to the next table when the table is full, and leave the
\* loop when the tables are exhausted or the list is
DistUpdate(x) ==
    /\ xpc[x] = "loop"
    /\ \/ \E a \in xlist[x] :
          /\ assignments' =
                IF a \in DOMAIN assignments
                THEN [assignments EXCEPT ![a].va_table_number = xtab[x],
                                         ![a].position = xpos[x]]
                ELSE assignments
          /\ xpos' = [xpos EXCEPT ![x] =
                        IF xpos[x] + 1 > xM[x] THEN 1 ELSE xpos[x] + 1]
          /\ xtab' = [xtab EXCEPT ![x] =
                        IF xpos[x] + 1 > xM[x] THEN xtab[x] + 1 ELSE xtab[x]]
          /\ IF (xpos[x] + 1 > xM[x] /\ xtab[x] + 1 > NumQueues)
                \/ xlist[x] = {a}
             THEN /\ xpc' = [xpc EXCEPT ![x] = "done"]
                  /\ xlist' = [xlist EXCEPT ![x] = {}]
             ELSE /\ xpc' = xpc
                  /\ xlist' = [xlist EXCEPT ![x] = @ \ {a}]
          /\ xM' = xM
       \/ /\ xpc' = [xpc EXCEPT ![x] = "error"]
          /\ xlist' = [xlist EXCEPT ![x] = {}]
          /\ xtab' = [xtab EXCEPT ![x] = 0]
          /\ xpos' = [xpos EXCEPT ![x] = 0]
          /\ UNCHANGED <<assignments, xM>>
    /\ UNCHANGED <<pool, campaigns, airtable, selVars, restVars, delVars>>

DistNext ==
    \/ \E x \in Calls : DistFetch(x)
    \/ \E x \in Calls : DistUpdate(x)

\* any interleaving of the distribute_campaign calls
SpecDist == DistInit /\ [][DistNext]_vars

DistResting(x) == xpc[x] \in {"idle", "done", "rejected", "notfound", "error"}

\* a call is accepted only when no other call is in progress
DistFetchSeq(x) ==
    /\ \A y \in Calls \ {x} : DistResting(y)
    /\ DistFetch(x)

DistSeqNext ==
    \/ \E x \in Calls : DistFetchSeq(x)
    \/ \E x \in Calls : DistUpdate(x)

\* the distribute_campaign calls run one after the other
SpecDistSeq == DistInit /\ [][DistSeqNext]_vars

\* ----------------------------------------------------------------------
\*                        distributor: properties
\* ----------------------------------------------------------------------

CampaignRows == {a \in DOMAIN assignments :
                    assignments[a].campaign_id = TheCampaign}

Packed == {a \in CampaignRows : assignments[a].va_table_number > 0}

\* positions taken in queue q
PositionsIn(q) == {assignments[a].position :
                      a \in {r \in Packed : assignments[r].va_table_number = q}}

RowsIn(q) == {r \in Packed : assignments[r].va_table_number = q}

\* C8: no two assignments of one campaign and tenant share a pair
\* (va_table_number, position) with both nonzero.
C8_SlotUnique ==
    \A a1, a2 \in DOMAIN assignments :
        (/\ a1 # a2
         /\ assignments[a1].campaign_id = assignments[a2].campaign_id
         /\ assignments[a1].base_id = assignments[a2].base_id
         /\ assignments[a1].va_table_number # 0
         /\ assignments[a1].position # 0)
            => \/ assignments[a1].va_table_number # assignments[a2].va_table_number
               \/ assignments[a1].position # assignments[a2].position

\* C9: when one distribute call has finished on a campaign with T
\* placeholders and no other call has run, exactly min(T, N*M) rows are
\* packed, the queues before the last used one hold positions 1..M, the
\* last used queue holds 1..p_last without gaps, and the other rows are
\* still placeholders.
C9_PackedPrefix ==
    \A x \in Calls :
        (xpc[x] = "done" /\ \A y \in Calls \ {x} : xpc[y] = "idle")
            => /\ Cardinality(Packed) =
                     Min(Cardinality(CampaignRows), NumQueues * xM[x])
               /\ \A q \in 1..NumQueues :
                     /\ Cardinality(RowsIn(q)) = Cardinality(PositionsIn(q))
                     /\ PositionsIn(q) = 1..Cardinality(RowsIn(q))
                     /\ Cardinality(RowsIn(q)) <= xM[x]
                     /\ (q < NumQueues /\ RowsIn(q + 1) # {})
                           => PositionsIn(q) = 1..xM[x]
               /\ \A a \in Packed : assignments[a].va_table_number \in 1..NumQueues
               /\ \A a \in CampaignRows \ Packed :
                     assignments[a].va_table_number = 0 /\ assignments[a].position = 0

\* one call finished alone, two queues were used and rows overflowed
C9_Witness ==
    \E x \in Calls :
        /\ xpc[x] = "done" /\ \A y \in Calls \ {x} : xpc[y] = "idle"
        /\ RowsIn(2) # {}
        /\ CampaignRows \ Packed # {}

\* ======================================================================
\*           LIFECYCLE ENGINE (delete_completed_after_delay)
\* ======================================================================

\* a distributed, mirrored assignment of campaign c: profile i of base b in
\* table q at position 1, with the status the pull sync brought in
Mirrored(c, b, i, q, st, old) ==
    [assignment_id |-> <<c, i>>, campaign_id |-> c, base_id |-> b, id |-> i,
     va_table_number |-> q, position |-> 1, status |-> st,
     asgOld |-> FALSE, updOld |-> old]

\* the record airtable_sync created for an assignment
RecordOf(r) == [base |-> r.base_id, table |-> r.va_table_number,
                id |-> r.id, status |-> r.status, n |-> 1]

LifeRows == ({1} \X (1..NumQueues)) \cup {<<2, 1>>}

\* Tenant appA holds campaign 1, distributed with one profile per table;
\* tenant appB holds campaign 2 with profile id 1 in table 1.  Both were
\* pushed, the operators edited some records, a pull sync brought the
\* statuses in, and time has passed.
LifeInit ==
    /\ \E st \in [LifeRows -> {"followed", "completed"}] :
       \E old \in [LifeRows -> BOOLEAN] :
          assignments = [a \in LifeRows |->
                            IF a[1] = 1
                            THEN Mirrored(1, "appA", a[2], a[2], st[a], old[a])
                            ELSE Mirrored(2, "appB", 1, 1, st[a], old[a])]
    /\ airtable = {RecordOf(assignments[a]) : a \in DOMAIN assignments}
    /\ pool = [k \in ({"appA"} \X (1..NumQueues)) \cup {<<"appB", 1>>} |-> TRUE]
    /\ campaigns = {[campaign_id |-> 1, base_id |-> "appA",
                     total_assigned |-> NumQueues, status |-> TRUE],
                    [campaign_id |-> 2, base_id |-> "appB",
                     total_assigned |-> 1, status |-> TRUE]}
    /\ SelIdle
    /\ DistIdle
    /\ DelIdle
    /\ JobIdle
    /\ RestIdle

\* the first record of the table whose id field equals the assignment's id
FirstMatch(b, tn, i) ==
    LET M == {r \in airtable : r.base = b /\ r.table = tn /\ r.id = i}
    IN  IF M = {} THEN {}
        ELSE {CHOOSE r \in M : \A o \in M : r.n <= o.n}

\* records_to_delete for table tn of the call's base
RecordsToDelete(tn) ==
    UNION {FirstMatch(delBase, tn, assignments[a].id) :
             a \in {r \in delRecs : /\ r \in DOMAIN assignments
                                    /\ assignments[r].va_table_number = tn}}

\* query the completed rows older than 24 hours (no base_id filter), group
\* the distributed ones by table
DelQuery ==
    /\ delPc = "idle"
    /\ \E b \in BaseIds :
         LET recs == {a \in DOMAIN assignments :
                         /\ assignments[a].status = "completed"
                         /\ assignments[a].updOld}
         IN  \/ /\ recs = {}
                /\ delPc' = "done"
                /\ delBase' = b
                /\ UNCHANGED <<delRecs, delTables, delTodo, delErrors>>
             \/ /\ recs # {}
                /\ delBase' = b
                /\ delRecs' = recs
                /\ delTables' = {assignments[a].va_table_number : a \in recs} \ {0}
                /\ delTodo' = recs
                /\ delErrors' = {}
                /\ delPc' = "sweeping"
             \/ /\ delPc' = "error"
                /\ delBase' = b
                /\ UNCHANGED <<delRecs, delTables, delTodo, delErrors>>
    /\ UNCHANGED <<storeVars, selVars, distVars, restVars>>

\* one table of by_table: fetch its records, match them on the id field and
\* batch_delete them in chunks; the chunks sent before a call raises are
\* deleted, the error is recorded and the loop continues
DelExternal ==
    /\ delPc = "sweeping"
    /\ delTables # {}
    /\ \E tn \in delTables :
         /\ \E D \in SUBSET RecordsToDelete(tn) :
              /\ \/ D = RecordsToDelete(tn)
                 \/ Cardinality(D) % delete_chunk = 0
              /\ airtable' = airtable \ D
              /\ \/ /\ D = RecordsToDelete(tn)
                    /\ delErrors' = delErrors
                 \/ /\ D = {} \/ D # RecordsToDelete(tn)
                    /\ delErrors' = delErrors \cup {tn}
         /\ delTables' = delTables \ {tn}
    /\ UNCHANGED <<pool, campaigns, assignments, delPc, delBase, delRecs, delTodo>>
    /\ UNCHANGED <<selVars, distVars, restVars>>

\* one iteration of the internal loop: delete the row by assignment_id; a
\* failure is recorded and the loop continues
DelInternal ==
    /\ delPc = "sweeping"
    /\ delTables = {}
    /\ \E a \in delTodo :
         /\ \/ assignments' = [r \in DOMAIN assignments \ {a} |-> assignments[r]]
            \/ assignments' = assignments
         /\ delTodo' = delTodo \ {a}
         /\ delPc' = IF delTodo = {a} THEN "done" ELSE delPc
    /\ UNCHANGED <<pool, campaigns, airtable, delBase, delRecs, delTables, delErrors>>
    /\ UNCHANGED <<selVars, distVars, restVars>>

LifeNext ==
    \/ DelQuery
    \/ DelExternal
    \/ DelInternal

SpecLife == LifeInit /\ [][LifeNext]_vars

\* ----------------------------------------------------------------------
\*                      lifecycle engine: properties
\* ----------------------------------------------------------------------

\* the external records that mirror assignment row r
ExternalOf(r) == {e \in airtable : /\ e.base = r.base_id
                                   /\ e.table = r.va_table_number
                                   /\ e.id = r.id}

\* C10: a step of delete_completed_after_delay deletes an assignment row
\* internally only if the external delete of its table did not fail and no
\* external record of the row is left.
C10_ExternalBeforeInternal ==
    [][\A a \in DOMAIN assignments \ DOMAIN assignments' :
          /\ assignments[a].va_table_number \notin delErrors
          /\ ExternalOf(assignments[a]) = {}]_vars

\* ======================================================================
\*             PROFILE STORE (batch_insert_profiles)
\* ======================================================================

\* the profile lists the calls are made with: one profile, two profiles
\* with different ids, the same id twice, a profile without id among valid
\* ones, and no valid profile at all
Inputs == {<<1>>, <<2, 1>>, <<1, 1>>, <<0, 2>>, <<0>>}

\* valid_profiles: the profiles that carry an id and a username
valid_profiles(X) == SelectSeq(X, LAMBDA i : i # 0)

SeqIds(X) == {X[k] : k \in 1..Len(X)}

\* the ids the existence probe returns for a list: global_usernames rows
\* whose id is in the list, of whatever base_id
existing_ids(X) == {i \in SeqIds(X) : \E b \in BaseIds : <<b, i>> \in DOMAIN pool}

\* global_records: the valid profiles whose id the probe did not return
global_records(X, existing) == SelectSeq(X, LAMBDA i : i \notin existing)

\* global_usernames holds one row per (base_id, id): an insert of a batch
\* is accepted when none of its keys is taken and no key occurs twice
Insertable(b, G) ==
    /\ \A k \in 1..Len(G) : <<b, G[k]>> \notin DOMAIN pool
    /\ \A k, l \in 1..Len(G) : G[k] = G[l] => k = l

PoolWith(b, S) == [k \in DOMAIN pool \cup ({b} \X S) |->
                      IF k \in DOMAIN pool THEN pool[k] ELSE FALSE]

\* tenant appA may already hold profile 1
IngInit ==
    /\ \E F \in SUBSET {<<"appA", 1>>} : pool = [k \in F |-> FALSE]
    /\ campaigns = {}
    /\ assignments = << >>
    /\ airtable = {}
    /\ SelIdle
    /\ DistIdle
    /\ DelIdle
    /\ JobIdle
    /\ RestIdle

\* validation, then the existence probe (one chunk of up to 5000 ids); a
\* probe that raises is logged and leaves existing_ids empty
IngProbe(c) ==
    /\ ipc[c] = "idle"
    /\ \E b \in BaseIds : \E X \in Inputs :
         /\ ibase' = [ibase EXCEPT ![c] = b]
         /\ iin' = [iin EXCEPT ![c] = X]
         /\ IF valid_profiles(X) = << >>
            THEN /\ ipc' = [ipc EXCEPT ![c] = "done"]
                 /\ UNCHANGED <<iglobal, iskipped, ifault>>
            ELSE /\ ipc' = [ipc EXCEPT ![c] = "raw"]
                 /\ \E ok \in BOOLEAN :
                      LET existing == IF ok THEN existing_ids(valid_profiles(X))
                                      ELSE {}
                          G == global_records(valid_profiles(X), existing)
                      IN  /\ iglobal' = [iglobal EXCEPT ![c] = G]
                          /\ iskipped' = [iskipped EXCEPT ![c] =
                                            Len(valid_profiles(X)) - Len(G)]
                          /\ ifault' = (ifault \/ ~ok)
    /\ UNCHANGED <<iraw, iadded>>
    /\ UNCHANGED <<storeVars, selVars, distVars, delVars, jobVars, readVars, orchVars, apiVars>>
    /\ UNCHANGED <<pushVars, syncVars, markVars, cleanVars>>

\* bulk insert #1 into raw_scraped_profiles, with the per-record fallback:
\* k of the records end up inserted
IngRaw(c) ==
    /\ ipc[c] = "raw"
    /\ \E k \in 0..Len(valid_profiles(iin[c])) :
         /\ iraw' = [iraw EXCEPT ![c] = k]
         /\ ifault' = (ifault \/ k < Len(valid_profiles(iin[c])))
    /\ ipc' = [ipc EXCEPT ![c] = IF iglobal[c] = << >> THEN "done" ELSE "global"]
    /\ UNCHANGED <<ibase, iin, iglobal, iadded, iskipped>>
    /\ UNCHANGED <<storeVars, selVars, distVars, delVars, jobVars, readVars, orchVars, apiVars>>
    /\ UNCHANGED <<pushVars, syncVars, markVars, cleanVars>>

\* bulk insert #2 into global_usernames: the batch as one insert
IngGlobalBatch(c) ==
    /\ ipc[c] = "global"
    /\ \/ /\ Insertable(ibase[c], iglobal[c])
          /\ pool' = PoolWith(ibase[c], SeqIds(iglobal[c]))
          /\ iadded' = [iadded EXCEPT ![c] = @ + Len(iglobal[c])]
          /\ iglobal' = [iglobal EXCEPT ![c] = << >>]
          /\ ipc' = [ipc EXCEPT ![c] = "done"]
          /\ ifault' = ifault
       \/ /\ ipc' = [ipc EXCEPT ![c] = "fallback"]
          /\ ifault' = (ifault \/ Insertable(ibase[c], iglobal[c]))
          /\ UNCHANGED <<pool, iadded, iglobal>>
    /\ UNCHANGED <<ibase, iin, iraw, iskipped>>
    /\ UNCHANGED <<campaigns, assignments, airtable>>
    /\ UNCHANGED <<selVars, distVars, delVars, jobVars, readVars, orchVars, apiVars>>
    /\ UNCHANGED <<pushVars, syncVars, markVars, cleanVars>>

\* one iteration of the fallback: insert the record alone; an insert that
\* raises, for a duplicate key or otherwise, is counted as skipped
IngGlobalOne(c) ==
    /\ ipc[c] = "fallback"
    /\ iglobal[c] # << >>
    /\ LET i == Head(iglobal[c])
       IN  \/ /\ <<ibase[c], i>> \notin DOMAIN pool
              /\ pool' = PoolWith(ibase[c], {i})
              /\ iadded' = [iadded EXCEPT ![c] = @ + 1]
              /\ UNCHANGED <<iskipped, ifault>>
           \/ /\ pool' = pool
              /\ iskipped' = [iskipped EXCEPT ![c] = @ + 1]
              /\ iadded' = iadded
              /\ ifault' = (ifault \/ <<ibase[c], i>> \notin DOMAIN pool)
    /\ iglobal' = [iglobal EXCEPT ![c] = Tail(@)]
    /\ ipc' = [ipc EXCEPT ![c] = IF Tail(iglobal[c]) = << >> THEN "done"
                                 ELSE "fallback"]
    /\ UNCHANGED <<ibase, iin, iraw>>
    /\ UNCHANGED <<campaigns, assignments, airtable>>
    /\ UNCHANGED <<selVars, distVars, delVars, jobVars, readVars, orchVars, apiVars>>
    /\ UNCHANGED <<pushVars, syncVars, markVars, cleanVars>>

IngNext ==
    \/ \E c \in Calls : IngProbe(c)
    \/ \E c \in Calls : IngRaw(c)
    \/ \E c \in Calls : IngGlobalBatch(c)
    \/ \E c \in Calls : IngGlobalOne(c)

\* any interleaving of the batch_insert_profiles calls
SpecIngest == IngInit /\ [][IngNext]_vars

\* a call is made only when no other call is in progress
IngProbeSeq(c) ==
    /\ \A d \in Calls \ {c} : ipc[d] \in {"idle", "done"}
    /\ IngProbe(c)

IngSeqNext ==
    \/ \E c \in Calls : IngProbeSeq(c)
    \/ \E c \in Calls : IngRaw(c)
    \/ \E c \in Calls : IngGlobalBatch(c)
    \/ \E c \in Calls : IngGlobalOne(c)

\* the batch_insert_profiles calls run one after the other
SpecIngestSeq == IngInit /\ [][IngSeqNext]_vars

\* ----------------------------------------------------------------------
\*                       profile store: properties
\* ----------------------------------------------------------------------

ValidIds(c) == SeqIds(valid_profiles(iin[c]))

\* C12: when two batch_insert_profiles calls of one tenant with overlapping
\* ids have both returned, and the store refused nothing but duplicate
\* keys, the tenant holds a global_usernames row for every valid id of
\* either call and each call counted every valid profile as added or as
\* skipped.
C12_RacingIngestUnion ==
    \A c, d \in Calls :
        (/\ c # d
         /\ ipc[c] = "done" /\ ipc[d] = "done"
         /\ ibase[c] = ibase[d]
         /\ ValidIds(c) \cap ValidIds(d) # {}
         /\ ~ifault)
            => /\ \A i \in ValidIds(c) \cup ValidIds(d) :
                     <<ibase[c], i>> \in DOMAIN pool
               /\ iadded[c] + iskipped[c] = Len(valid_profiles(iin[c]))
               /\ iadded[d] + iskipped[d] = Len(valid_profiles(iin[d]))

\* C13: a batch_insert_profiles call that runs after a call of the same
\* tenant with the same profiles has returned leaves global_usernames as it
\* found it and counts nothing as added.
C13_IngestIdempotent ==
    [][\A d \in Calls :
          (/\ ipc[d] \notin {"idle", "done"}
           /\ \E c \in Calls \ {d} : /\ ipc[c] = "done"
                                     /\ ibase[c] = ibase[d]
                                     /\ iin[c] = iin[d])
             => pool' = pool /\ iadded'[d] = 0]_vars

\* C14: when a batch_insert_profiles call for a tenant has returned, and
\* the store refused nothing but duplicate keys, the tenant holds a
\* global_usernames row for every valid id of the call, whatever rows other
\* tenants hold.
C14_PoolPerTenant ==
    \A c \in Calls :
        (ipc[c] = "done" /\ ~ifault)
            => \A i \in ValidIds(c) : <<ibase[c], i>> \in DOMAIN pool

\* ======================================================================
\*                    PUSH SYNC (airtable_sync)
\* ======================================================================

sync_batch == 10       \* records per batch_create call

\* the row distribute_campaign leaves for the i-th profile of a campaign
\* packed with M profiles per table
Distributed(c, b, i, M) ==
    [assignment_id |-> <<c, i>>, campaign_id |-> c, base_id |-> b, id |-> i,
     va_table_number |-> IF i <= NumQueues * M THEN ((i - 1) \div M) + 1 ELSE 0,
     position |-> IF i <= NumQueues * M THEN ((i - 1) % M) + 1 ELSE 0,
     status |-> "pending", asgOld |-> FALSE, updOld |-> FALSE]

\* a campaign of tenant appA with T profiles has been selected and
\* distributed with M profiles per table; nothing has been pushed yet
PushInit ==
    /\ \E T \in 1..NumProfiles : \E M \in 1..MaxPerTable :
         /\ pool = [k \in {"appA"} \X (1..T) |-> TRUE]
         /\ campaigns = {[campaign_id |-> TheCampaign, base_id |-> "appA",
                          total_assigned |-> T, status |-> FALSE]}
         /\ assignments = [a \in {TheCampaign} \X (1..T) |->
                              Distributed(TheCampaign, "appA", a[2], M)]
    /\ airtable = {}
    /\ SelIdle
    /\ DistIdle
    /\ DelIdle
    /\ JobIdle
    /\ RestIdle

\* the rows step 2 fetches: the campaign's rows of the base with a table
Assigned(b) == {a \in DOMAIN assignments :
                   /\ assignments[a].campaign_id = TheCampaign
                   /\ assignments[a].base_id = b
                   /\ assignments[a].va_table_number > 0}

\* profiles_by_table[tn]
TableProfiles(b, tn) == {a \in Assigned(b) : assignments[a].va_table_number = tn}

\* the record batch_create adds for a row: a new record of the table, next
\* to any record an earlier push created for the same profile
Created(r) ==
    LET same == {e \in airtable : /\ e.base = r.base_id
                                  /\ e.table = r.va_table_number
                                  /\ e.id = r.id}
    IN  [base |-> r.base_id, table |-> r.va_table_number, id |-> r.id,
         status |-> r.status, n |-> Cardinality(same) + 1]

PushResting == ppc \in {"idle", "done", "notfound", "rejected", "error",
                        "error_unwritten"}

\* the campaign row with its status set
WithStatus(cs, scoped, b, v) ==
    {IF k.campaign_id = TheCampaign /\ (~scoped \/ k.base_id = b)
     THEN [k EXCEPT !.status = v] ELSE k : k \in cs}

\* steps 1-3: verify the campaign (scoped to base_id), fetch the assigned
\* rows, group them by table
PushFetch ==
    /\ PushResting
    /\ pruns < NumCalls
    /\ pruns' = pruns + 1
    /\ pidx' = 0
    /\ ptry' = 0
    /\ tables_synced' = 0
    /\ records_synced' = 0
    /\ \E b \in BaseIds :
         /\ pbase' = b
         /\ \/ /\ ~\E k \in campaigns : k.campaign_id = TheCampaign /\ k.base_id = b
               /\ ppc' = "notfound"
               /\ ptodo' = {}
            \/ /\ \E k \in campaigns : k.campaign_id = TheCampaign /\ k.base_id = b
               /\ Assigned(b) = {}
               /\ ppc' = "rejected"
               /\ ptodo' = {}
            \/ /\ \E k \in campaigns : k.campaign_id = TheCampaign /\ k.base_id = b
               /\ Assigned(b) # {}
               /\ ppc' = "pushing"
               /\ ptodo' = {assignments[a].va_table_number : a \in Assigned(b)}
            \/ /\ ppc' = "except"       \* a store call raised
               /\ ptodo' = {}
    /\ UNCHANGED <<storeVars, selVars, distVars, delVars, jobVars, readVars, orchVars, apiVars>>
    /\ UNCHANGED <<ingVars, syncVars, markVars, cleanVars>>

\* records[i:i + batch_size] of a table's rows, taken in the order of the
\* fetch (by id), for i = idx
ChunkAt(rows, idx) ==
    {a \in rows : Cardinality({b \in rows : b[2] < a[2]}) \in idx..(idx + sync_batch - 1)}

\* step 4 leaving the loop over the tables when a table's retries are
\* exhausted
PushTable_Abandon ==
    /\ ppc = "pushing"
    /\ ptodo # {}
    /\ LET tn == SetMin(ptodo)
           rows == TableProfiles(pbase, tn)
       IN  \/ /\ airtable' = airtable \cup
                     {Created(assignments[a]) : a \in ChunkAt(rows, pidx)}
              /\ IF pidx + sync_batch >= Cardinality(rows)
                 THEN /\ tables_synced' = tables_synced + 1
                      /\ records_synced' = records_synced + Cardinality(rows)
                      /\ ptodo' = ptodo \ {tn}
                      /\ pidx' = 0
                 ELSE /\ pidx' = pidx + sync_batch
                      /\ UNCHANGED <<tables_synced, records_synced, ptodo>>
              /\ ptry' = IF pidx + sync_batch >= Cardinality(rows) THEN 0 ELSE ptry
           \/ /\ ptry < max_retries
              /\ ptry' = ptry + 1
              /\ pidx' = 0
              /\ UNCHANGED <<airtable, tables_synced, records_synced, ptodo>>
           \/ /\ ptry >= max_retries
              /\ ptry' = 0
              /\ pidx' = 0
              /\ ptodo' = {}
              /\ UNCHANGED <<airtable, tables_synced, records_synced>>
    /\ UNCHANGED <<pool, campaigns, assignments, ppc, pbase, pruns>>
    /\ UNCHANGED <<selVars, distVars, delVars, jobVars, readVars, orchVars, apiVars>>
    /\ UNCHANGED <<ingVars, syncVars, markVars, cleanVars>>

\* step 4, one batch_create of sync_with_retry on the next table in order:
\* the records of the table go out in batches of sync_batch; when a call
\* raises, the attempt starts again at the first record, up to max_retries
\* times, then the table is skipped
PushTable ==
    /\ ppc = "pushing"
    /\ ptodo # {}
    /\ LET tn == SetMin(ptodo)
           rows == TableProfiles(pbase, tn)
       IN  \/ /\ airtable' = airtable \cup
                     {Created(assignments[a]) : a \in ChunkAt(rows, pidx)}
              /\ IF pidx + sync_batch >= Cardinality(rows)
                 THEN /\ tables_synced' = tables_synced + 1
                      /\ records_synced' = records_synced + Cardinality(rows)
                      /\ ptodo' = ptodo \ {tn}
                      /\ pidx' = 0
                 ELSE /\ pidx' = pidx + sync_batch
                      /\ UNCHANGED <<tables_synced, records_synced, ptodo>>
              /\ ptry' = IF pidx + sync_batch >= Cardinality(rows) THEN 0 ELSE ptry
           \/ /\ ptry < max_retries
              /\ ptry' = ptry + 1
              /\ pidx' = 0
              /\ UNCHANGED <<airtable, tables_synced, records_synced, ptodo>>
           \/ /\ ptry >= max_retries
              /\ ptry' = 0
              /\ pidx' = 0
              /\ ptodo' = ptodo \ {tn}
              /\ UNCHANGED <<airtable, tables_synced, records_synced>>
    /\ UNCHANGED <<pool, campaigns, assignments, ppc, pbase, pruns>>
    /\ UNCHANGED <<selVars, distVars, delVars, jobVars, readVars, orchVars, apiVars>>
    /\ UNCHANGED <<ingVars, syncVars, markVars, cleanVars>>

\* the status decided on tables_synced > 0 instead of == num_va_tables
PushFinish_AnyTable ==
    /\ ppc = "pushing"
    /\ ptodo = {}
    /\ \/ /\ campaigns' = WithStatus(campaigns, TRUE, pbase,
                                     tables_synced > 0 /\ records_synced > 0)
          /\ ppc' = "done"
       \/ /\ campaigns' = campaigns
          /\ ppc' = "except"
    /\ UNCHANGED <<pool, assignments, airtable>>
    /\ UNCHANGED <<pbase, ptodo, ptry, tables_synced, records_synced, pruns, pidx>>
    /\ UNCHANGED <<selVars, distVars, delVars, jobVars, readVars, orchVars, apiVars>>
    /\ UNCHANGED <<ingVars, syncVars, markVars, cleanVars>>

\* after the loop: campaign_status = (tables_synced == num_va_tables and
\* records_synced > 0), written to the campaign row scoped to base_id
PushFinish ==
    /\ ppc = "pushing"
    /\ ptodo = {}
    /\ \/ /\ campaigns' = WithStatus(campaigns, TRUE, pbase,
                                     tables_synced = NumQueues /\ records_synced > 0)
          /\ ppc' = "done"
       \/ /\ campaigns' = campaigns
          /\ ppc' = "except"
    /\ UNCHANGED <<pool, assignments, airtable>>
    /\ UNCHANGED <<pbase, ptodo, ptry, tables_synced, records_synced, pruns, pidx>>
    /\ UNCHANGED <<selVars, distVars, delVars, jobVars, readVars, orchVars, apiVars>>
    /\ UNCHANGED <<ingVars, syncVars, markVars, cleanVars>>

\* except Exception: write status False by campaign_id alone; a failure of
\* this write is printed and the handler returns 500 all the same
PushExcept ==
    /\ ppc = "except"
    /\ \/ /\ campaigns' = WithStatus(campaigns, FALSE, pbase, FALSE)
          /\ ppc' = "error"
       \/ /\ campaigns' = campaigns
          /\ ppc' = "error_unwritten"
    /\ UNCHANGED <<pool, assignments, airtable>>
    /\ UNCHANGED <<pbase, ptodo, ptry, tables_synced, records_synced, pruns, pidx>>
    /\ UNCHANGED <<selVars, distVars, delVars, jobVars, readVars, orchVars, apiVars>>
    /\ UNCHANGED <<ingVars, syncVars, markVars, cleanVars>>

PushNext ==
    \/ PushFetch
    \/ PushTable
    \/ PushFinish
    \/ PushExcept

\* airtable_sync calls on the campaign, one after the other
SpecPush == PushInit /\ [][PushNext]_vars

\* ----------------------------------------------------------------------
\*                         push sync: properties
\* ----------------------------------------------------------------------

\* the status of the campaign of the tenant, in a set of campaign rows
StatusIn(cs, b) == \E k \in cs : /\ k.campaign_id = TheCampaign
                                 /\ k.base_id = b
                                 /\ k.status

\* every row of table q of the tenant has a record, and there is one
FullyPushed(q, ext) ==
    /\ TableProfiles(pbase, q) # {}
    /\ \A a \in TableProfiles(pbase, q) :
          \E e \in ext : /\ e.base = pbase
                         /\ e.table = q
                         /\ e.id = assignments[a].id

\* what the claim says of a call that ends in one of the outcomes Ends
StatusIffAllPushed(Ends) ==
    (ppc \notin Ends /\ ppc' \in Ends)
        => /\ StatusIn(campaigns', pbase)
                <=> /\ ppc' = "done"
                    /\ tables_synced = NumQueues
                    /\ records_synced > 0
           /\ StatusIn(campaigns', pbase)
                => \A q \in 1..NumQueues : FullyPushed(q, airtable')
           /\ (/\ ppc' = "done"
               /\ pruns = 1
               /\ \A q \in 1..NumQueues : FullyPushed(q, airtable'))
                => StatusIn(campaigns', pbase)

CycleInit ==
    /\ assignments = [a \in LifeRows |->
                         IF a[1] = 1
                         THEN Mirrored(1, "appA", a[2], a[2], "pending", FALSE)
                         ELSE Mirrored(2, "appB", 1, 1, "pending", FALSE)]
    /\ airtable = {RecordOf(assignments[a]) : a \in DOMAIN assignments}
    /\ pool = [k \in ({"appA"} \X (1..NumQueues)) \cup {<<"appB", 1>>} |-> TRUE]
    /\ campaigns = {[campaign_id |-> 1, base_id |-> "appA",
                     total_assigned |-> NumQueues, status |-> TRUE],
                    [campaign_id |-> 2, base_id |-> "appB",
                     total_assigned |-> 1, status |-> TRUE]}
    /\ SelIdle
    /\ DistIdle
    /\ DelIdle
    /\ JobIdle
    /\ RestIdle

SyncResting == spc \in {"idle", "done", "error"}
MarkResting == mpc \in {"idle", "done", "error"}
CleanResting == cpc \in {"idle", "done", "error"}
DelResting == delPc \in {"idle", "done", "error"}

\* no lifecycle operation is in progress
AllResting == SyncResting /\ MarkResting /\ CleanResting /\ DelResting

\* the values an operator can move a record's progress_status to
OperatorMoves(st) ==
    CASE st = "pending" -> {"followed", "completed"}
      [] st = "followed" -> {"completed"}
      [] st = "unfollow" -> {"completed"}
      [] OTHER -> {}

\* an operator edits the progress_status of a record in the external store
OperatorEdit ==
    /\ AllResting
    /\ \E e \in airtable : \E v \in OperatorMoves(e.status) :
         airtable' = (airtable \ {e}) \cup {[e EXCEPT !.status = v]}
    /\ UNCHANGED <<pool, campaigns, assignments>>
    /\ UNCHANGED <<selVars, distVars, delVars, jobVars, readVars, orchVars, apiVars>>
    /\ UNCHANGED <<ingVars, pushVars, syncVars, markVars, cleanVars>>

\* seven days pass: every row now has assigned_at <= now - 7 days (and
\* updated_at <= now - 24 hours)
Pass7Days ==
    /\ AllResting
    /\ \E a \in DOMAIN assignments : ~assignments[a].asgOld
    /\ assignments' = [a \in DOMAIN assignments |->
                          [assignments[a] EXCEPT !.asgOld = TRUE, !.updOld = TRUE]]
    /\ UNCHANGED <<pool, campaigns, airtable>>
    /\ UNCHANGED <<selVars, distVars, delVars, jobVars, readVars, orchVars, apiVars>>
    /\ UNCHANGED <<ingVars, pushVars, syncVars, markVars, cleanVars>>

\* 24 hours pass: every row now has updated_at <= now - 24 hours
Pass24Hours ==
    /\ AllResting
    /\ \E a \in DOMAIN assignments : ~assignments[a].updOld
    /\ assignments' = [a \in DOMAIN assignments |->
                          [assignments[a] EXCEPT !.updOld = TRUE]]
    /\ UNCHANGED <<pool, campaigns, airtable>>
    /\ UNCHANGED <<selVars, distVars, delVars, jobVars, readVars, orchVars, apiVars>>
    /\ UNCHANGED <<ingVars, pushVars, syncVars, markVars, cleanVars>>

\* update({'status': st}) where assignment_id = a.  The handlers never
\* write updated_at themselves: the column is kept by the store, which
\* sets it to the time of the update.
StatusUpdated(a, st) ==
    IF a \in DOMAIN assignments
    THEN [assignments EXCEPT ![a].status = st, ![a].updOld = FALSE]
    ELSE assignments

\* ---- sync_airtable_statuses ----

\* resolve base_id and the number of tables; the loop starts at table 1
SyncStart ==
    /\ spc = "idle"
    /\ AllResting
    /\ \E b \in BaseIds : sbase' = b
    /\ \/ spc' = "fetch" /\ stable' = 1
       \/ spc' = "error" /\ stable' = 0
    /\ UNCHANGED <<srecs, sfound, serrors>>
    /\ UNCHANGED <<storeVars, selVars, distVars, delVars, jobVars, readVars, orchVars, apiVars>>
    /\ UNCHANGED <<ingVars, pushVars, markVars, cleanVars>>

\* table.all() for the next table; a failure is recorded and the loop
\* moves on; after table N the handler returns
SyncFetch ==
    /\ spc = "fetch"
    /\ IF stable > NumQueues
       THEN /\ spc' = "done"
            /\ stable' = 0
            /\ UNCHANGED <<srecs, serrors>>
       ELSE LET recs == {e \in airtable : e.base = sbase /\ e.table = stable}
            IN  \/ /\ recs # {}
                   /\ srecs' = recs
                   /\ spc' = "records"
                   /\ UNCHANGED <<stable, serrors>>
                \/ /\ recs = {}
                   /\ stable' = stable + 1
                   /\ UNCHANGED <<spc, srecs, serrors>>
                \/ /\ serrors' = serrors \cup {stable}
                   /\ stable' = stable + 1
                   /\ UNCHANGED <<spc, srecs>>
    /\ UNCHANGED <<sbase, sfound>>
    /\ UNCHANGED <<storeVars, selVars, distVars, delVars, jobVars, readVars, orchVars, apiVars>>
    /\ UNCHANGED <<ingVars, pushVars, markVars, cleanVars>>

\* the record e of the table has been dealt with
SyncRecordDone(e) ==
    IF srecs = {e}
    THEN /\ srecs' = {}
         /\ stable' = stable + 1
         /\ spc' = "fetch"
    ELSE /\ srecs' = srecs \ {e}
         /\ stable' = stable
         /\ spc' = "records"

\* an exception inside the table's try block
SyncTableRaise ==
    /\ serrors' = serrors \cup {stable}
    /\ srecs' = {}
    /\ stable' = stable + 1
    /\ spc' = "fetch"

\* one record: select the rows with its id and the table number (no
\* base_id filter) and compare the status of data[0], whichever row the
\* store returns first
SyncLookup ==
    /\ spc = "records"
    /\ \E e \in srecs :
         LET found == {a \in DOMAIN assignments :
                          /\ assignments[a].id = e.id
                          /\ assignments[a].va_table_number = stable}
         IN  \/ /\ found = {}
                /\ SyncRecordDone(e)
                /\ UNCHANGED <<sfound, serrors>>
             \/ \E a \in found :
                  IF assignments[a].status = e.status
                  THEN /\ SyncRecordDone(e)
                       /\ UNCHANGED <<sfound, serrors>>
                  ELSE /\ sfound' = [rec |-> e, row |-> a,
                                     status |-> assignments[a].status]
                       /\ spc' = "update"
                       /\ UNCHANGED <<srecs, stable, serrors>>
             \/ /\ SyncTableRaise
                /\ UNCHANGED sfound
    /\ UNCHANGED sbase
    /\ UNCHANGED <<storeVars, selVars, distVars, delVars, jobVars, readVars, orchVars, apiVars>>
    /\ UNCHANGED <<ingVars, pushVars, markVars, cleanVars>>

\* update the row found to the record's status, by assignment_id
SyncUpdate ==
    /\ spc = "update"
    /\ \/ /\ assignments' = StatusUpdated(sfound.row, sfound.rec.status)
          /\ SyncRecordDone(sfound.rec)
          /\ UNCHANGED serrors
       \/ /\ assignments' = assignments
          /\ SyncTableRaise
    /\ sfound' = [rec |-> NoRecord, row |-> <<0, 0>>, status |-> "none"]
    /\ UNCHANGED sbase
    /\ UNCHANGED <<pool, campaigns, airtable>>
    /\ UNCHANGED <<selVars, distVars, delVars, jobVars, readVars, orchVars, apiVars>>
    /\ UNCHANGED <<ingVars, pushVars, markVars, cleanVars>>

\* ---- mark_unfollow_due ----

\* query the followed rows with assigned_at <= now - 7 days (no base_id
\* filter)
MarkQuery ==
    /\ mpc = "idle"
    /\ AllResting
    /\ \E b \in BaseIds : mbase' = b
    /\ LET recs == {a \in DOMAIN assignments :
                       /\ assignments[a].status = "followed"
                       /\ assignments[a].asgOld}
       IN  \/ /\ recs = {}
              /\ mpc' = "done"
              /\ UNCHANGED <<mrecs, mtodo, mtables>>
           \/ /\ recs # {}
              /\ mrecs' = recs
              /\ mtodo' = recs
              /\ mtables' = {assignments[a].va_table_number : a \in recs} \ {0}
              /\ mpc' = "internal"
           \/ /\ mpc' = "error"
              /\ UNCHANGED <<mrecs, mtodo, mtables>>
    /\ UNCHANGED merrors
    /\ UNCHANGED <<storeVars, selVars, distVars, delVars, jobVars, readVars, orchVars, apiVars>>
    /\ UNCHANGED <<ingVars, pushVars, syncVars, cleanVars>>

\* one iteration of the first loop: update the row to unfollow by
\* assignment_id; a failure is recorded and the loop continues
MarkInternal ==
    /\ mpc = "internal"
    /\ \E a \in mtodo :
         /\ \/ /\ assignments' = StatusUpdated(a, "unfollow")
               /\ merrors' = merrors
            \/ /\ assignments' = assignments
               /\ merrors' = TRUE
         /\ mtodo' = mtodo \ {a}
         /\ mpc' = IF mtodo = {a}
                   THEN (IF mtables = {} THEN "done" ELSE "external")
                   ELSE mpc
    /\ UNCHANGED <<mbase, mrecs, mtables>>
    /\ UNCHANGED <<pool, campaigns, airtable>>
    /\ UNCHANGED <<selVars, distVars, delVars, jobVars, readVars, orchVars, apiVars>>
    /\ UNCHANGED <<ingVars, pushVars, syncVars, cleanVars>>

\* the records of table tn of the call's base the second loop updates: for
\* each followed record, the first record of the table with its id
RecordsToMark(tn) ==
    UNION {FirstMatch(mbase, tn, assignments[a].id) :
             a \in {r \in mrecs : /\ r \in DOMAIN assignments
                                  /\ assignments[r].va_table_number = tn}}

\* one table of by_table: fetch its records and update the matching ones
\* to unfollow one by one; when a call raises, the updates made so far
\* stay, the error is recorded and the loop continues
MarkExternal ==
    /\ mpc = "external"
    /\ \E tn \in mtables :
         /\ \E U \in SUBSET RecordsToMark(tn) :
              /\ airtable' = (airtable \ U) \cup
                                {[e EXCEPT !.status = "unfollow"] : e \in U}
              /\ merrors' = (merrors \/ U # RecordsToMark(tn))
         /\ mtables' = mtables \ {tn}
         /\ mpc' = IF mtables = {tn} THEN "done" ELSE mpc
    /\ UNCHANGED <<mbase, mrecs, mtodo>>
    /\ UNCHANGED <<pool, campaigns, assignments>>
    /\ UNCHANGED <<selVars, distVars, delVars, jobVars, readVars, orchVars, apiVars>>
    /\ UNCHANGED <<ingVars, pushVars, syncVars, cleanVars>>

\* ---- run_daily, step 4 ----

\* Steps 1 to 3 of run_daily build and push the campaign of the day, as
\* daily_selection, distribute_campaign and airtable_sync do; they touch no
\* row of an earlier campaign and are left out of this specification.  The
\* clock stops on the seventh day, so the purge of rows older than eight
\* days that ends the step finds nothing to delete.

\* select the pending rows assigned exactly seven days ago (no base_id
\* filter)
CleanQuery ==
    /\ cpc = "idle"
    /\ AllResting
    /\ LET recs == {a \in DOMAIN assignments :
                       /\ assignments[a].status = "pending"
                       /\ assignments[a].asgOld}
       IN  \/ /\ cpc' = IF recs = {} THEN "done" ELSE "marking"
              /\ ctodo' = recs
           \/ /\ cpc' = "error"
              /\ ctodo' = {}
    /\ UNCHANGED <<storeVars, selVars, distVars, delVars, jobVars, readVars, orchVars, apiVars>>
    /\ UNCHANGED <<ingVars, pushVars, syncVars, markVars>>

\* one iteration: update the row to 'to_unfollow'; a failure ends the step
CleanMark ==
    /\ cpc = "marking"
    /\ \E a \in ctodo :
         \/ /\ assignments' = StatusUpdated(a, "to_unfollow")
            /\ ctodo' = ctodo \ {a}
            /\ cpc' = IF ctodo = {a} THEN "done" ELSE cpc
         \/ /\ assignments' = assignments
            /\ ctodo' = {}
            /\ cpc' = "error"
    /\ UNCHANGED <<pool, campaigns, airtable>>
    /\ UNCHANGED <<selVars, distVars, delVars, jobVars, readVars, orchVars, apiVars>>
    /\ UNCHANGED <<ingVars, pushVars, syncVars, markVars>>

\* ---- delete_completed_after_delay, one call at a time ----

DelQueryAlone ==
    /\ AllResting
    /\ DelQuery

CycleNext ==
    \/ OperatorEdit
    \/ Pass7Days
    \/ Pass24Hours
    \/ SyncStart
    \/ SyncFetch
    \/ SyncLookup
    \/ SyncUpdate
    \/ MarkQuery
    \/ MarkInternal
    \/ MarkExternal
    \/ DelQueryAlone
    \/ DelExternal
    \/ DelInternal

\* sync_airtable_statuses, mark_unfollow_due and
\* delete_completed_after_delay, each called once, in any order, one at a
\* time, with operator edits and the passing of time in between
SpecCycle == CycleInit /\ [][CycleNext]_vars

\* The two campaigns were pushed on the same day and the operators marked
\* some records followed; a pull sync brought the statuses in.  The sweeps
\* run before the seventh day after the assignment or on it.
SweepInit ==
    /\ \E st \in [LifeRows -> {"pending", "followed"}] :
       \E old \in BOOLEAN :
          assignments = [a \in LifeRows |->
                            [(IF a[1] = 1
                              THEN Mirrored(1, "appA", a[2], a[2], st[a], old)
                              ELSE Mirrored(2, "appB", 1, 1, st[a], old))
                             EXCEPT !.asgOld = old]]
    /\ airtable = {RecordOf(assignments[a]) : a \in DOMAIN assignments}
    /\ pool = [k \in ({"appA"} \X (1..NumQueues)) \cup {<<"appB", 1>>} |-> TRUE]
    /\ campaigns = {[campaign_id |-> 1, base_id |-> "appA",
                     total_assigned |-> NumQueues, status |-> TRUE],
                    [campaign_id |-> 2, base_id |-> "appB",
                     total_assigned |-> 1, status |-> TRUE]}
    /\ SelIdle
    /\ DistIdle
    /\ DelIdle
    /\ JobIdle
    /\ RestIdle

SweepNext ==
    \/ MarkQuery
    \/ MarkInternal
    \/ MarkExternal
    \/ CleanQuery
    \/ CleanMark

\* the two aging sweeps, mark_unfollow_due and step 4 of run_daily, each
\* run once, one at a time, in either order
SpecSweep == SweepInit /\ [][SweepNext]_vars

\* ----------------------------------------------------------------------
\*                 lifecycle engine: tenant isolation
\* ----------------------------------------------------------------------

\* the rows of the tenants other than b are still there, unmodified
Frame(b) ==
    \A a \in DOMAIN assignments :
        assignments[a].base_id # b =>
            /\ a \in DOMAIN assignments'
            /\ assignments'[a] = assignments[a]

\* C11: no step of sync_airtable_statuses, mark_unfollow_due or
\* delete_completed_after_delay called for tenant t modifies or deletes an
\* assignment row of another tenant, also when that row has the same
\* profile id and the same table number as a row of t.
C11_TenantFrame ==
    [][/\ spc = "update" => Frame(sbase)
       /\ mpc = "internal" => Frame(mbase)
       /\ delPc = "sweeping" => Frame(delBase)]_vars

\* ----------------------------------------------------------------------
\*                    lifecycle engine: pull sync
\* ----------------------------------------------------------------------

\* every row of tenant b that has a record in its table carries the
\* record's status
InSync(b) ==
    \A a \in DOMAIN assignments :
        assignments[a].base_id = b =>
            \A e \in ExternalOf(assignments[a]) : assignments[a].status = e.status

\* C15: when sync_airtable_statuses returns and no table reported an error,
\* every assignment row of the tenant that has a record in the external
\* table of its queue has the status of that record.
C15_PullSyncReflectsEdits ==
    [][(spc = "fetch" /\ spc' = "done" /\ serrors = {}) => InSync(sbase)]_vars

\* ----------------------------------------------------------------------
\*                    lifecycle engine: aging
\* ----------------------------------------------------------------------

\* C17: when mark_unfollow_due returns and no update failed, every
\* assignment row it selected (followed, assigned at least 7 days ago) has
\* status unfollow and every external record of the row has status
\* unfollow as well.
C17_MarkedInBothStores ==
    [][(mpc # "done" /\ mpc' = "done" /\ ~merrors') =>
          \A a \in mrecs' :
              /\ a \in DOMAIN assignments'
              /\ assignments'[a].status = "unfollow"
              /\ \A e \in airtable' :
                    (/\ e.base = assignments'[a].base_id
                     /\ e.table = assignments'[a].va_table_number
                     /\ e.id = assignments'[a].id) => e.status = "unfollow"]_vars

\* C18: once mark_unfollow_due has returned without a failed update and
\* step 4 of run_daily has completed, no assignment row assigned 7 days ago
\* is left pending: the rows that were pending have status unfollow, as
\* the followed ones have.
C18_PendingAgedToUnfollow ==
    (mpc = "done" /\ ~merrors /\ cpc = "done") =>
        \A a \in DOMAIN assignments :
            assignments[a].asgOld => assignments[a].status = "unfollow"

\* ----------------------------------------------------------------------
\*              lifecycle engine: completed, then deleted
\* ----------------------------------------------------------------------

\* C19: every row is pending at first, so a completed row became completed
\* through sync_airtable_statuses, and it is selected for deletion only 24
\* hours after that update.  When a run of delete_completed_after_delay in
\* which no external delete failed removes such a row from
\* daily_assignments, the external record of the row is already gone.
C19_SyncedCompletedDeletedInOrder ==
    [][\A a \in DOMAIN assignments \ DOMAIN assignments' :
          (delPc = "sweeping" /\ delErrors = {} /\ assignments[a].status = "completed")
              => ExternalOf(assignments[a]) = {}]_vars

\* ----------------------------------------------------------------------
\*                    job engine: deadlines
\* ----------------------------------------------------------------------

\* C20: no job stays queued or processing forever: from some point on the
\* status of a submitted job is completed or failed, in particular when a
\* batch task ran into its time limit.
C20_NoJobStuck ==
    <>[](job.status \notin {"queued", "processing"})

\* ----------------------------------------------------------------------
\*                    job engine: progress counter
\* ----------------------------------------------------------------------

\* C21: whatever the interleaving of the batch tasks of the job, no step
\* lowers profiles_scraped of the job row: a poller sees non-decreasing
\* values.
C21_ProgressMonotone ==
    [][job'.profiles_scraped >= job.profiles_scraped]_vars

\* ----------------------------------------------------------------------
\*                campaign selector: one successful call
\* ----------------------------------------------------------------------

\* the rows of campaign c for profile i
RowsFor(asg, c, i) == {a \in DOMAIN asg : asg[a].campaign_id = c /\ asg[a].id = i}

\* C22: when a daily_selection call that ran alone reports success, it has
\* selected min(U, N*M) profiles of the U that were unused, each selected
\* profile is used and has exactly one placeholder row (table 0, position
\* 0, pending) in the new campaign, total_assigned of the campaign is the
\* number selected, and the unused count of the pool dropped by it.
C22_SuccessfulSelect ==
    [][\A c \in Calls :
          (dpc[c] = "inserted" /\ dpc'[c] = "done") =>
             LET b == dbase[c]
                 S == dsel'[c]
                 left == {i \in Ids : <<b, i>> \in DOMAIN pool' /\ ~pool'[<<b, i>>]}
             IN  /\ S \cap left = {}
                 /\ Cardinality(S) = Min(Cardinality(left) + Cardinality(S), dtarget[c])
                 /\ \A i \in S :
                       /\ pool'[<<b, i>>]
                       /\ Cardinality(RowsFor(assignments', c, i)) = 1
                       /\ \A a \in RowsFor(assignments', c, i) :
                             /\ assignments'[a].va_table_number = 0
                             /\ assignments'[a].position = 0
                             /\ assignments'[a].status = "pending"
                             /\ assignments'[a].base_id = b
                 /\ \A a \in DOMAIN assignments' :
                       assignments'[a].campaign_id = c => assignments'[a].id \in S
                 /\ \A k \in campaigns' :
                       k.campaign_id = c => k.total_assigned = Cardinality(S)
                 /\ \E k \in campaigns' : k.campaign_id = c /\ k.base_id = b]_vars

\* a call succeeded on a pool that held fewer unused profiles than its
\* target, after another call of the tenant had succeeded
C22_Witness ==
    \E c, d \in Calls :
        /\ c # d /\ dbase[c] = dbase[d]
        /\ dpc[c] = "done" /\ dpc[d] = "done"
        /\ dsel[c] # {}
        /\ Cardinality(dsel[c]) < dtarget[c]
        /\ \E k \in campaigns : k.campaign_id = c /\ k.total_assigned = Cardinality(dsel[c])

\* ----------------------------------------------------------------------
\*                     distributor: second call
\* ----------------------------------------------------------------------

\* C23: once a distribute_campaign call has succeeded on the campaign, no
\* later call on the campaign enters the assignment loop: it is answered
\* without an update of daily_assignments.
C23_RedistributeRejected ==
    [][\A x \in Calls :
          (xpc[x] = "idle" /\ \E y \in Calls : xpc[y] = "done")
              => xpc'[x] # "loop"]_vars

\* ======================================================================
\*               JOB READERS (get_job_status, get_job_results)
\* ======================================================================

RECURSIVE Reverse(_)
Reverse(q) == IF q = << >> THEN << >>
              ELSE Reverse(Tail(q)) \o <<Head(q)>>

\* the scrape_jobs rows with the job_id of the request: the handlers filter
\* on job_id alone
JobRows == IF job.status = "none" THEN {} ELSE {job}

\* a client of tenant b asks for the status of the job: one select
GetJobStatus ==
    /\ rpc = "idle"
    /\ \E b \in BaseIds : rbase' = b
    /\ rkind' = "status"
    /\ \/ /\ JobRows = {}
          /\ rpc' = "notfound"
          /\ rseen' = rseen
       \/ /\ JobRows # {}
          /\ rpc' = "ok"
          /\ rseen' = job.status
       \/ /\ rpc' = "error"
          /\ rseen' = rseen
    /\ UNCHANGED <<rtotal, rout>>
    /\ UNCHANGED <<jobVars, storeVars, selVars, distVars, delVars, orchVars, apiVars>>
    /\ UNCHANGED <<ingVars, pushVars, syncVars, markVars, cleanVars>>

\* get_job_results with the test of the status inverted to "not failed"
ResultsVerify_NotFailed ==
    /\ rpc = "idle"
    /\ \E b \in BaseIds : rbase' = b
    /\ rkind' = "results"
    /\ \/ /\ JobRows = {}
          /\ rpc' = "notfound"
          /\ rseen' = rseen
       \/ /\ JobRows # {}
          /\ rseen' = job.status
          /\ rpc' = IF job.status # "failed" THEN "count" ELSE "notcompleted"
       \/ /\ rpc' = "error"
          /\ rseen' = rseen
    /\ UNCHANGED <<rtotal, rout>>
    /\ UNCHANGED <<jobVars, storeVars, selVars, distVars, delVars, orchVars, apiVars>>
    /\ UNCHANGED <<ingVars, pushVars, syncVars, markVars, cleanVars>>

\* get_job_results, first select: the job must exist and be completed
ResultsVerify ==
    /\ rpc = "idle"
    /\ \E b \in BaseIds : rbase' = b
    /\ rkind' = "results"
    /\ \/ /\ JobRows = {}
          /\ rpc' = "notfound"
          /\ rseen' = rseen
       \/ /\ JobRows # {}
          /\ rseen' = job.status
          /\ rpc' = IF job.status = "completed" THEN "count" ELSE "notcompleted"
       \/ /\ rpc' = "error"
          /\ rseen' = rseen
    /\ UNCHANGED <<rtotal, rout>>
    /\ UNCHANGED <<jobVars, storeVars, selVars, distVars, delVars, orchVars, apiVars>>
    /\ UNCHANGED <<ingVars, pushVars, syncVars, markVars, cleanVars>>

\* get_job_results, second select: the exact count of the job's rows
ResultsCount ==
    /\ rpc = "count"
    /\ \/ /\ rtotal' = Len(results)
          /\ rpc' = "rows"
       \/ /\ rtotal' = rtotal
          /\ rpc' = "error"
    /\ UNCHANGED <<rkind, rbase, rseen, rout>>
    /\ UNCHANGED <<jobVars, storeVars, selVars, distVars, delVars, orchVars, apiVars>>
    /\ UNCHANGED <<ingVars, pushVars, syncVars, markVars, cleanVars>>

\* get_job_results, third select: page 1 of the rows, newest first
ResultsRows ==
    /\ rpc = "rows"
    /\ \/ /\ rout' = Reverse(results)
          /\ rpc' = "ok"
          /\ rtotal' = rtotal
       \/ /\ rout' = rout
          /\ rpc' = "error"
          /\ rtotal' = 0
    /\ UNCHANGED <<rkind, rbase, rseen>>
    /\ UNCHANGED <<jobVars, storeVars, selVars, distVars, delVars, orchVars, apiVars>>
    /\ UNCHANGED <<ingVars, pushVars, syncVars, markVars, cleanVars>>

\* The job of a tenant was submitted and its batch tasks have all returned,
\* each with 0..MaxScraped filtered profiles; the chord has sent the
\* aggregation task.  The handler's update to processing was made or had
\* failed.
ReadInit ==
    /\ StoreEmpty
    /\ SelIdle
    /\ DistIdle
    /\ DelIdle
    /\ RestIdle
    /\ \E f \in [Batches -> 0..MaxScraped] :
          /\ bout = [b \in Batches |-> [s |-> f[b], f |-> f[b]]]
          /\ \E b \in BaseIds : \E st \in {"queued", "processing"} :
                /\ job = [NoJob EXCEPT !.status = st, !.base_id = b,
                                       !.profiles_scraped = total_filtered]
                /\ hpc = IF st = "queued" THEN "error" ELSE "done"
    /\ results = << >>
    /\ bpc = [b \in Batches |-> "success"]
    /\ btry = [b \in Batches |-> 0]
    /\ bcur = [b \in Batches |-> 0]
    /\ aggPc = "queued"
    /\ aggTry = 0
    /\ aggIdx = 0
    /\ aggStarts = 0

ReadNext ==
    \/ AggStart
    \/ AggInsertChunk
    \/ AggComplete
    \/ AggExcept
    \/ GetJobStatus
    \/ ResultsVerify
    \/ ResultsCount
    \/ ResultsRows

\* the aggregation of the job, and one call of a reader endpoint at any
\* moment of it
SpecRead == ReadInit /\ [][ReadNext]_vars

\* ----------------------------------------------------------------------
\*                       job readers: properties
\* ----------------------------------------------------------------------

\* C24: get_job_status and get_job_results called by a tenant with the
\* job_id of a job another tenant created answer that the job was not
\* found (or fail with a server error): they do not go on to read the job.
C24_ForeignJobNotFound ==
    [][(rpc = "idle" /\ rpc' # "idle" /\ rbase' # job.base_id)
          => rpc' \in {"notfound", "error"}]_vars

\* ======================================================================
\*          BACKGROUND PIPELINE (daily_pipeline_orchestrator)
\* ======================================================================

\* the uuid of the campaign an attempt of the task creates
OrchCampaign == 10 + otry

\* the uuid of the assignment built for the global_usernames row k
OrchRow(k) == <<OrchCampaign, k[2] + (IF k[1] = "appA" THEN 0 ELSE NumProfiles)>>

\* the row the task builds for a selected profile: no base_id is written
OrchPlaceholder(k) ==
    [assignment_id |-> OrchRow(k), campaign_id |-> OrchCampaign,
     base_id |-> "none", id |-> k[2],
     va_table_number |-> 0, position |-> 0, status |-> "pending",
     asgOld |-> FALSE, updOld |-> FALSE]

\* the task raised: BaseTask.autoretry_for re-queues it up to max_retries
\* times; the locals of the attempt are gone
OrchRaise ==
    /\ IF otry < max_retries
       THEN opc' = "queued" /\ otry' = otry + 1
       ELSE opc' = "failure" /\ otry' = otry
    /\ osel' = {}
    /\ otodo' = {}
    /\ otab' = 0
    /\ opos' = 0

\* run_daily_async: a client of tenant b queues the task; the base_id of
\* the request is not read
OrchQueue ==
    /\ opc = "idle"
    /\ \E b \in BaseIds : obase' = b
    /\ \E m \in 1..MaxPerTable : oM' = m
    /\ opc' = "queued"
    /\ UNCHANGED <<otry, osel, otodo, otab, opos>>
    /\ UNCHANGED <<jobVars, storeVars, selVars, distVars, delVars>>
    /\ UNCHANGED <<ingVars, pushVars, syncVars, markVars, cleanVars, readVars, apiVars>>

\* step 1: insert the campaigns row, without base_id
OrchCreate ==
    /\ opc = "queued"
    /\ \/ /\ campaigns' = campaigns \cup
                {[campaign_id |-> OrchCampaign, base_id |-> "none",
                  total_assigned |-> 0, status |-> FALSE]}
          /\ opc' = "created"
          /\ UNCHANGED <<otry, osel, otodo, otab, opos>>
       \/ /\ campaigns' = campaigns
          /\ OrchRaise
    /\ UNCHANGED <<pool, assignments, airtable, obase, oM>>
    /\ UNCHANGED <<jobVars, selVars, distVars, delVars>>
    /\ UNCHANGED <<ingVars, pushVars, syncVars, markVars, cleanVars, readVars, apiVars>>

\* select up to target_count rows of global_usernames with used = False,
\* of whatever base_id
OrchSelect ==
    /\ opc = "created"
    /\ LET rows == {k \in DOMAIN pool : ~pool[k]}
       IN  \/ /\ rows # {}
              /\ \E S \in SUBSET rows :
                    /\ Cardinality(S) = Min(Cardinality(rows), NumQueues * oM)
                    /\ osel' = S
                    /\ otodo' = S
              /\ opc' = "marking"
              /\ UNCHANGED <<otry, otab, opos>>
           \/ OrchRaise       \* no unused profiles, or the store raised
    /\ UNCHANGED <<storeVars, obase, oM>>
    /\ UNCHANGED <<jobVars, selVars, distVars, delVars>>
    /\ UNCHANGED <<ingVars, pushVars, syncVars, markVars, cleanVars, readVars, apiVars>>

\* one iteration of the marking loop: update used = True where id matches
OrchMark ==
    /\ opc = "marking"
    /\ otodo # {}
    /\ \E k \in otodo :
         \/ /\ pool' = [r \in DOMAIN pool |-> IF r[2] = k[2] THEN TRUE ELSE pool[r]]
            /\ otodo' = otodo \ {k}
            /\ UNCHANGED <<opc, otry, osel, otab, opos>>
         \/ /\ pool' = pool
            /\ OrchRaise
    /\ UNCHANGED <<campaigns, assignments, airtable, obase, oM>>
    /\ UNCHANGED <<jobVars, selVars, distVars, delVars>>
    /\ UNCHANGED <<ingVars, pushVars, syncVars, markVars, cleanVars, readVars, apiVars>>

\* insert the placeholder assignments in one call
OrchInsert ==
    /\ opc = "marking"
    /\ otodo = {}
    /\ \/ /\ assignments' =
                [a \in DOMAIN assignments \cup {OrchRow(k) : k \in osel} |->
                    IF a \in DOMAIN assignments THEN assignments[a]
                    ELSE OrchPlaceholder(CHOOSE k \in osel : OrchRow(k) = a)]
          /\ opc' = "inserted"
          /\ UNCHANGED <<otry, osel, otodo, otab, opos>>
       \/ /\ assignments' = assignments
          /\ OrchRaise
    /\ UNCHANGED <<pool, campaigns, airtable, obase, oM>>
    /\ UNCHANGED <<jobVars, selVars, distVars, delVars>>
    /\ UNCHANGED <<ingVars, pushVars, syncVars, markVars, cleanVars, readVars, apiVars>>

\* update total_assigned of the campaign; step 2 starts at table 1,
\* position 1 with the shuffled assignments
OrchUpdateCampaign ==
    /\ opc = "inserted"
    /\ \/ /\ campaigns' = {IF c.campaign_id = OrchCampaign
                           THEN [c EXCEPT !.total_assigned = Cardinality(osel)]
                           ELSE c : c \in campaigns}
          /\ opc' = "loop"
          /\ otodo' = osel
          /\ otab' = 1
          /\ opos' = 1
          /\ UNCHANGED <<otry, osel>>
       \/ /\ campaigns' = campaigns
          /\ OrchRaise
    /\ UNCHANGED <<pool, assignments, airtable, obase, oM>>
    /\ UNCHANGED <<jobVars, selVars, distVars, delVars>>
    /\ UNCHANGED <<ingVars, pushVars, syncVars, markVars, cleanVars, readVars, apiVars>>

\* step 2, one iteration: update the row by assignment_id, advance the
\* position, move to the next table when the table is full, and leave the
\* loop when the tables are exhausted or the list is
OrchDistribute ==
    /\ opc = "loop"
    /\ \/ \E k \in otodo :
          /\ assignments' = [assignments EXCEPT
                                ![OrchRow(k)].va_table_number = otab,
                                ![OrchRow(k)].position = opos]
          /\ opos' = IF opos + 1 > oM THEN 1 ELSE opos + 1
          /\ otab' = IF opos + 1 > oM THEN otab + 1 ELSE otab
          /\ IF (opos + 1 > oM /\ otab + 1 > NumQueues) \/ otodo = {k}
             THEN opc' = "done" /\ otodo' = {}
             ELSE opc' = opc /\ otodo' = otodo \ {k}
          /\ UNCHANGED <<otry, osel>>
       \/ /\ assignments' = assignments
          /\ OrchRaise
    /\ UNCHANGED <<pool, campaigns, airtable, obase, oM>>
    /\ UNCHANGED <<jobVars, selVars, distVars, delVars>>
    /\ UNCHANGED <<ingVars, pushVars, syncVars, markVars, cleanVars, readVars, apiVars>>

OrchNext ==
    \/ OrchQueue
    \/ OrchCreate
    \/ OrchSelect
    \/ OrchMark
    \/ OrchInsert
    \/ OrchUpdateCampaign
    \/ OrchDistribute

\* one run of the background pipeline on the pools of two tenants
SpecOrch == SelInit /\ [][OrchNext]_vars

\* ----------------------------------------------------------------------
\*                    background pipeline: properties
\* ----------------------------------------------------------------------

\* C25: a step of the daily pipeline queued for tenant t changes the used
\* flag of profiles of t only, and the assignments and the campaign it
\* creates carry the base_id of t.
C25_PipelineTenantFrame ==
    [][opc \notin {"idle", "done", "failure"} =>
          /\ \A k \in DOMAIN pool : pool'[k] # pool[k] => k[1] = obase
          /\ \A a \in DOMAIN assignments' \ DOMAIN assignments :
                assignments'[a].base_id = obase
          /\ \A c \in campaigns' \ campaigns : c.base_id = obase]_vars

\* ======================================================================
\*        TENANT RESOLUTION (utils/base_id_utils.py, daily_selection)
\* ======================================================================

MaxIdLen == 4          \* longest X-Base-Id header or base_id field sent

\* strings are sequences of characters; alphanumeric, underscore, blank
Chars == {"a", "p", "_", " "}
IdStrings == UNION {[1..n -> Chars] : n \in 0..MaxIdLen}

\* str.strip()
RECURSIVE LStrip(_)
LStrip(s) == IF s # << >> /\ Head(s) = " " THEN LStrip(Tail(s)) ELSE s

RECURSIVE RStrip(_)
RStrip(s) == IF s # << >> /\ s[Len(s)] = " "
             THEN RStrip(SubSeq(s, 1, Len(s) - 1)) ELSE s

Strip(s) == RStrip(LStrip(s))

\* str.isalnum(): not empty and every character alphanumeric
IsAlnum(s) == s # << >> /\ \A i \in 1..Len(s) : s[i] \in {"a", "p"}

\* str.replace('_', '')
RECURSIVE DropUnderscores(_)
DropUnderscores(s) ==
    IF s = << >> THEN << >>
    ELSE IF Head(s) = "_" THEN DropUnderscores(Tail(s))
    ELSE <<Head(s)>> \o DropUnderscores(Tail(s))

StartsWithApp(s) == Len(s) >= 3 /\ SubSeq(s, 1, 3) = <<"a", "p", "p">>

\* validate_base_id
validate_base_id(base_id) ==
    /\ base_id # << >>
    /\ LET b == Strip(base_id) IN
         /\ StartsWithApp(b)
         /\ Len(b) > 3
         /\ IsAlnum(DropUnderscores(SubSeq(b, 4, Len(b))))

\* get_base_id_from_request(required=True): the header, else the body
\* field, else ValueError (the empty string stands for the raise)
get_base_id_from_request(hdr, body) ==
    IF hdr # << >> /\ Strip(hdr) # << >> THEN Strip(hdr)
    ELSE IF body # << >> /\ Strip(body) # << >> THEN Strip(body)
    ELSE << >>

\* daily_selection receives a request and resolves its tenant; a missing
\* base_id raises ValueError into the handler's except Exception: 500
TenantResolve ==
    /\ tpc = "idle"
    /\ \E h \in IdStrings : \E b \in IdStrings :
         /\ thdr' = h
         /\ tbody' = b
         /\ tbase' = get_base_id_from_request(h, b)
         /\ tpc' = IF get_base_id_from_request(h, b) = << >>
                   THEN "error500" ELSE "resolved"
    /\ tep' = "daily_selection"
    /\ UNCHANGED <<jobVars, storeVars, selVars, distVars, delVars>>
    /\ UNCHANGED <<ingVars, pushVars, syncVars, markVars, cleanVars>>
    /\ UNCHANGED <<readVars, orchVars, reqVars, bgVars, cliVars>>

\* if not validate_base_id(base_id): 400
TenantValidate ==
    /\ tpc = "resolved"
    /\ tpc' = IF validate_base_id(tbase) THEN "valid" ELSE "badrequest400"
    /\ UNCHANGED <<tep, thdr, tbody, tbase>>
    /\ UNCHANGED <<jobVars, storeVars, selVars, distVars, delVars>>
    /\ UNCHANGED <<ingVars, pushVars, syncVars, markVars, cleanVars>>
    /\ UNCHANGED <<readVars, orchVars, reqVars, bgVars, cliVars>>

\* step 1 of daily_selection: the campaigns row is inserted under the
\* base_id the request gave
TenantCampaign ==
    /\ tpc = "valid"
    /\ \/ /\ campaigns' = campaigns \cup
                {[campaign_id |-> 1, base_id |-> tbase,
                  total_assigned |-> 0, status |-> FALSE]}
          /\ tpc' = "created"
       \/ /\ campaigns' = campaigns
          /\ tpc' = "error500"
    /\ UNCHANGED <<tep, thdr, tbody, tbase>>
    /\ UNCHANGED <<pool, assignments, airtable>>
    /\ UNCHANGED <<jobVars, selVars, distVars, delVars>>
    /\ UNCHANGED <<ingVars, pushVars, syncVars, markVars, cleanVars>>
    /\ UNCHANGED <<readVars, orchVars, reqVars, bgVars, cliVars>>

\* run_daily_async receives a request: base_id is not read, the
\* orchestrator task is queued and 202 is answered
TenantRunDaily ==
    /\ tpc = "idle"
    /\ opc = "idle"
    /\ \E h \in IdStrings : thdr' = h
    /\ tbody' = << >>
    /\ tep' = "run_daily_async"
    /\ tbase' = tbase
    /\ tpc' = "queued202"
    /\ opc' = "queued"
    /\ \E m \in 1..MaxPerTable : oM' = m
    /\ UNCHANGED <<obase, otry, osel, otodo, otab, opos>>
    /\ UNCHANGED <<jobVars, storeVars, selVars, distVars, delVars>>
    /\ UNCHANGED <<ingVars, pushVars, syncVars, markVars, cleanVars>>
    /\ UNCHANGED <<readVars, reqVars, bgVars, cliVars>>

TenNext ==
    \/ TenantResolve
    \/ TenantValidate
    \/ TenantCampaign
    \/ TenantRunDaily
    \/ OrchCreate

SpecTenant == SelInit /\ [][TenNext]_vars

\* the tenant id the request carries, header before body
SentId == IF Strip(thdr) # << >> THEN Strip(thdr) ELSE Strip(tbody)

\* app[A-Za-z0-9_]{8,20}
MatchesTenantPattern(s) ==
    /\ StartsWithApp(s)
    /\ Len(s) - 3 \in 8..20
    /\ \A i \in 4..Len(s) : s[i] \in {"a", "p", "_"}

\* C26: a request of a tenant-scoped operation that carries no tenant id, or
\* one that does not match app[A-Za-z0-9_]{8,20}, is answered with a client
\* error once it is answered, and no row is written to the store for it.
C26_TenantRequired ==
    (tpc # "idle" /\ ~MatchesTenantPattern(SentId))
        => /\ tpc \in {"resolved", "badrequest400"}
           /\ campaigns = {}

\* ======================================================================
\*            SCRAPE REQUEST (scrape_followers_async, one request)
\* ======================================================================

MaxAccounts == 101     \* longest accounts list a request sends
MaxCount == 203        \* largest totalScrapeCount a request sends

\* totalScrapeCount of a body: absent, or an integer
Counts == {<< >>} \cup {<<v>> : v \in -1..MaxCount}

\* int(total_scrape_count / len(accounts)): true division, then truncation
\* toward zero; exact for the positive integers below 2^53
PerAccount(total, n) == total \div n

\* range(0, len(accounts), batch_size)
BatchStarts(n) == {i \in 0..(n - 1) : i % account_batch_size = 0}

\* [accounts[i:i + batch_size] for i in range(0, len(accounts), batch_size)]
AccountBatches(accounts) ==
    [j \in 1..Cardinality(BatchStarts(Len(accounts))) |->
        SubSeq(accounts, (j - 1) * account_batch_size + 1,
               Min(j * account_batch_size, Len(accounts)))]

\* the request arrives and is validated: accounts, tenant, totalScrapeCount
ScrapeReceive ==
    /\ qpc = "idle"
    /\ \E n \in 0..MaxAccounts : \E c \in Counts :
         /\ qaccounts' = [i \in 1..n |-> i]
         /\ qcount' = c
         /\ IF n = 0
            THEN qpc' = "badrequest400" /\ qper' = 0
            ELSE IF c # << >> /\ c[1] <= 0
            THEN qpc' = "badrequest400" /\ qper' = 0
            ELSE IF c # << >> /\ PerAccount(c[1], n) = 0
            THEN qpc' = "badrequest400" /\ qper' = 0
            ELSE /\ qpc' = "checked"
                 /\ qper' = IF c # << >> THEN PerAccount(c[1], n)
                            ELSE default_per_account
    /\ UNCHANGED <<qbatches, qjob, qtasks>>
    /\ UNCHANGED <<jobVars, storeVars, selVars, distVars, delVars>>
    /\ UNCHANGED <<ingVars, pushVars, syncVars, markVars, cleanVars>>
    /\ UNCHANGED <<readVars, orchVars, tenVars, bgVars, cliVars>>

\* a variant of ScrapeInsert that counts a batch too many when the list
\* divides evenly
ScrapeInsert_Plus ==
    /\ qpc = "checked"
    /\ qbatches' = AccountBatches(qaccounts)
    /\ \/ /\ qjob' = <<[status |-> "queued",
                        max_count_per_account |-> qper,
                        total_batches |->
                            Len(qaccounts) \div account_batch_size + 1]>>
          /\ qpc' = "inserted"
       \/ /\ qjob' = qjob
          /\ qpc' = "error500"
    /\ UNCHANGED <<qaccounts, qcount, qper, qtasks>>
    /\ UNCHANGED <<jobVars, storeVars, selVars, distVars, delVars>>
    /\ UNCHANGED <<ingVars, pushVars, syncVars, markVars, cleanVars>>
    /\ UNCHANGED <<readVars, orchVars, tenVars, bgVars, cliVars>>

\* split the accounts and insert the scrape_jobs row
ScrapeInsert ==
    /\ qpc = "checked"
    /\ qbatches' = AccountBatches(qaccounts)
    /\ \/ /\ qjob' = <<[status |-> "queued",
                        max_count_per_account |-> qper,
                        total_batches |-> Len(AccountBatches(qaccounts))]>>
          /\ qpc' = "inserted"
       \/ /\ qjob' = qjob
          /\ qpc' = "error500"
    /\ UNCHANGED <<qaccounts, qcount, qper, qtasks>>
    /\ UNCHANGED <<jobVars, storeVars, selVars, distVars, delVars>>
    /\ UNCHANGED <<ingVars, pushVars, syncVars, markVars, cleanVars>>
    /\ UNCHANGED <<readVars, orchVars, tenVars, bgVars, cliVars>>

\* one scrape_account_batch signature per batch, given to the chord
ScrapeChord ==
    /\ qpc = "inserted"
    /\ qtasks' = [i \in 1..Len(qbatches) |->
                    [accounts |-> qbatches[i], max_per_account |-> qper,
                     batch_number |-> i]]
    /\ qpc' = "enqueued"
    /\ UNCHANGED <<qaccounts, qcount, qper, qbatches, qjob>>
    /\ UNCHANGED <<jobVars, storeVars, selVars, distVars, delVars>>
    /\ UNCHANGED <<ingVars, pushVars, syncVars, markVars, cleanVars>>
    /\ UNCHANGED <<readVars, orchVars, tenVars, bgVars, cliVars>>

\* update status = processing, then 202
ScrapeProcessing ==
    /\ qpc = "enqueued"
    /\ \/ /\ qjob' = <<[qjob[1] EXCEPT !.status = "processing"]>>
          /\ qpc' = "accepted202"
       \/ /\ qjob' = qjob
          /\ qpc' = "error500"
    /\ UNCHANGED <<qaccounts, qcount, qper, qbatches, qtasks>>
    /\ UNCHANGED <<jobVars, storeVars, selVars, distVars, delVars>>
    /\ UNCHANGED <<ingVars, pushVars, syncVars, markVars, cleanVars>>
    /\ UNCHANGED <<readVars, orchVars, tenVars, bgVars, cliVars>>

ScrapeNext ==
    \/ ScrapeReceive
    \/ ScrapeInsert
    \/ ScrapeChord
    \/ ScrapeProcessing

SpecScrape == JobInit /\ [][ScrapeNext]_vars

RECURSIVE Flatten(_)
Flatten(ss) == IF ss = << >> THEN << >> ELSE Head(ss) \o Flatten(Tail(ss))

C28_ResultsOnlyWhenCompleted ==
    rkind = "results" =>
        /\ (rpc \in {"count", "rows", "ok"} \/ rout # << >>)
              => job.status = "completed"
        /\ rseen \in {"queued", "processing", "failed"}
              => rpc = "notcompleted" /\ rout = << >>

\* a call was answered with the rows of a completed job, and they are all
\* the rows the aggregation stored
C28_Witness ==
    /\ rkind = "results"
    /\ rpc = "ok"
    /\ rseen = "completed"
    /\ rout # << >>
    /\ Len(rout) = job.total_filtered

\* C29: a daily_selection call whose tenant has no unused profile when the
\* selection query runs ends there with the no-profiles client error (or the
\* 500 of a store failure): it marks no profile used, inserts no assignment
\* and takes no later step.
C29_NoProfilesAborts ==
    [][\A c \in Calls :
         /\ (dpc[c] = "created" /\ Unused(dbase[c]) = {} /\ dpc'[c] # dpc[c])
               => /\ dpc'[c] \in {"noprofiles", "error"}
                  /\ pool' = pool
                  /\ assignments' = assignments
         /\ dpc[c] = "noprofiles"
               => /\ dpc'[c] = "noprofiles"
                  /\ \A a \in DOMAIN assignments' :
                        assignments'[a].campaign_id # c]_vars

\* a call was answered with the no-profiles error after an earlier call of
\* the same tenant had used up the pool; it left no assignment behind
C29_Witness ==
    \E c \in Calls : \E d \in Calls \ {c} :
        /\ dpc[c] = "noprofiles"
        /\ dpc[d] = "done"
        /\ dbase[c] = dbase[d]
        /\ Unused(dbase[c]) = {}
        /\ \A a \in DOMAIN assignments : assignments[a].campaign_id # c

\* C30: in every state, every assignment row has table number 0 exactly
\* when it has position 0: a row is either a placeholder or placed in a
\* table at a position.
C30_PlaceholderIffUnplaced ==
    \A a \in DOMAIN assignments :
        (assignments[a].va_table_number = 0) <=> (assignments[a].position = 0)

\* a distribution has ended with rows placed in tables and, the tables
\* being full, other rows of the campaign still placeholders
C30_Witness ==
    /\ \E x \in Calls : xpc[x] = "done"
    /\ \E a \in DOMAIN assignments :
          /\ assignments[a].va_table_number > 0
          /\ assignments[a].position > 0
    /\ \E a \in DOMAIN assignments :
          /\ assignments[a].va_table_number = 0
          /\ assignments[a].position = 0

\* C31: in every state the status of every assignment row is one of
\* pending, followed, unfollow, completed.
C31_StatusInEnum ==
    \A a \in DOMAIN assignments :
        assignments[a].status \in {"pending", "followed", "unfollow", "completed"}

\* C32: no step takes the job out of a terminal status: once the status is
\* completed or failed, no write of the submit handler or of a task makes it
\* queued or processing again.
C32_TerminalNotOverwritten ==
    [][job.status \in Terminal => job'.status \in Terminal]_vars

MarkSyncNext ==
    \/ MarkQuery
    \/ MarkInternal
    \/ MarkExternal
    \/ SyncStart
    \/ SyncFetch
    \/ SyncLookup
    \/ SyncUpdate

\* one mark_unfollow_due call and one sync_airtable_statuses call, in
\* either order, with no operator at the records
SpecMarkSync == SweepInit /\ [][MarkSyncNext]_vars

\* C33: with no operator edits, no step takes a row whose status is
\* unfollow back to followed.
C33_UnfollowNotReverted ==
    [][\A a \in DOMAIN assignments :
          (assignments[a].status = "unfollow" /\ a \in DOMAIN assignments')
             => assignments'[a].status # "followed"]_vars

\* ---- airtable_sync on tables that take more than one batch_create ----

MaxPushRows == 12      \* most rows of the campaign pushed

\* a campaign of tenant appA with T profiles has been distributed with M
\* profiles per table, M possibly above sync_batch; nothing has been pushed
PushChunksInit ==
    /\ \E T \in 1..MaxPushRows : \E M \in 1..MaxPushRows :
         /\ pool = [k \in {"appA"} \X (1..T) |-> TRUE]
         /\ campaigns = {[campaign_id |-> TheCampaign, base_id |-> "appA",
                          total_assigned |-> T, status |-> FALSE]}
         /\ assignments = [a \in {TheCampaign} \X (1..T) |->
                              Distributed(TheCampaign, "appA", a[2], M)]
    /\ airtable = {}
    /\ SelIdle
    /\ DistIdle
    /\ DelIdle
    /\ JobIdle
    /\ RestIdle

SpecPushChunks == PushChunksInit /\ [][PushNext]_vars

\* C34: during the first airtable_sync run on empty tables no row gets a
\* second record, and when the run returns records_synced is the number of
\* records it created.
C34_PushCreatesOnce ==
    pruns = 1 =>
        /\ \A e \in airtable : e.n = 1
        /\ ppc = "done" => records_synced = Cardinality(airtable)

\* the step in which the push gives up the table it is at
PushSkips ==
    /\ ppc = "pushing"
    /\ ptodo # {}
    /\ ptodo' # ptodo
    /\ tables_synced' = tables_synced

\* no table sees more than k attempts; a table is given up only after the
\* k-th attempt failed, and then the call goes on with every later table
AttemptsThenSkip(k) ==
    /\ (ppc = "pushing" /\ ptodo # {}) => ptry + 1 <= k
    /\ PushSkips => /\ ptry + 1 = k
                    /\ ppc' = "pushing"
                    /\ ptodo' = ptodo \ {SetMin(ptodo)}

\* C35 as stated: a table whose batch_create keeps failing sees at most 3
\* attempts, then the table is skipped and the later tables are still
\* pushed by the same call.
C35_RetryThenSkip_Stated ==
    [][AttemptsThenSkip(3)]_vars

\* C35: a table whose batch_create keeps failing sees the first attempt and
\* at most 3 retries, 4 attempts in all, then the table is skipped and the
\* later tables are still pushed by the same call.
C35_RetryThenSkip ==
    [][AttemptsThenSkip(max_retries + 1)]_vars

\* the first run returned with table 1 given up, part of its records
\* created, and table 2 pushed whole
C35_Witness ==
    /\ ppc = "done"
    /\ pruns = 1
    /\ tables_synced = 1
    /\ \E a \in DOMAIN assignments :
          /\ assignments[a].va_table_number = 1
          /\ \A e \in airtable : ~(e.table = 1 /\ e.id = assignments[a].id)
    /\ \E e \in airtable : e.table = 1
    /\ \E e \in airtable : e.table = 2

\* C36: a daily_selection call that has ended with the no-profiles error
\* or with a store error has left nothing in the store: no campaign row
\* and no assignment of its campaign, and, once no call is in progress, no
\* profile that is used without having an assignment.
C36_FailedSelectLeavesNothing ==
    \A c \in Calls :
        dpc[c] \in {"noprofiles", "error"} =>
            /\ ~\E k \in campaigns : k.campaign_id = c
            /\ \A a \in DOMAIN assignments : assignments[a].campaign_id # c
            /\ (\A d \in Calls : DSResting(d)) =>
                  \A k \in DOMAIN pool :
                      pool[k] => \E a \in DOMAIN assignments :
                                    /\ assignments[a].base_id = k[1]
                                    /\ assignments[a].id = k[2]

\* C37: whenever the job is completed, it has as many result rows as its
\* total_filtered says.
C37_CompletedRowsMatch ==
    job.status = "completed" => Len(results) = job.total_filtered

\* ======================================================================
\*      BACKGROUND INGESTION (ingest_profiles_async, ingest_profiles_batch)
\* ======================================================================

\* ingest_profiles_async: the profiles (at most 1000, one batch) are given
\* to one ingest_profiles_batch task and the batch ticket is returned; the
\* base_id of the request is not read and not passed to the task
IngestAccept(c) ==
    /\ gpc[c] = "idle"
    /\ \E b \in BaseIds : \E X \in Inputs :
         /\ gbase' = [gbase EXCEPT ![c] = b]
         /\ gin' = [gin EXCEPT ![c] = X]
    /\ \/ /\ gpc' = [gpc EXCEPT ![c] = "accepted202"]
          /\ gtask' = [gtask EXCEPT ![c] = "queued"]
       \/ /\ gpc' = [gpc EXCEPT ![c] = "error500"]     \* delay() raised
          /\ gtask' = gtask
    /\ gtry' = gtry
    /\ UNCHANGED <<jobVars, storeVars, selVars, distVars, delVars>>
    /\ UNCHANGED <<ingVars, pushVars, syncVars, markVars, cleanVars>>
    /\ UNCHANGED <<readVars, orchVars, tenVars, reqVars, cliVars>>

\* a variant of the task whose call of batch_insert_profiles inserts the
\* valid profiles under the tenant of the request
IngestTask_Inserts(c) ==
    /\ gtask[c] = "queued"
    /\ pool' = PoolWith(gbase[c], SeqIds(valid_profiles(gin[c])))
    /\ gtask' = [gtask EXCEPT ![c] = "success"]
    /\ gtry' = gtry
    /\ UNCHANGED <<gpc, gbase, gin>>
    /\ UNCHANGED <<campaigns, assignments, airtable>>
    /\ UNCHANGED <<jobVars, selVars, distVars, delVars>>
    /\ UNCHANGED <<ingVars, pushVars, syncVars, markVars, cleanVars>>
    /\ UNCHANGED <<readVars, orchVars, tenVars, reqVars, cliVars>>

\* ingest_profiles_batch: batch_insert_profiles is called without its
\* required parameter base_id, which raises TypeError before the function
\* body runs; the task logs, re-raises and is re-queued by autoretry_for up
\* to max_retries times
IngestTask(c) ==
    /\ gtask[c] = "queued"
    /\ IF gtry[c] < max_retries
       THEN /\ gtry' = [gtry EXCEPT ![c] = @ + 1]
            /\ gtask' = gtask
       ELSE /\ gtry' = gtry
            /\ gtask' = [gtask EXCEPT ![c] = "failure"]
    /\ UNCHANGED <<gpc, gbase, gin>>
    /\ UNCHANGED <<jobVars, storeVars, selVars, distVars, delVars>>
    /\ UNCHANGED <<ingVars, pushVars, syncVars, markVars, cleanVars>>
    /\ UNCHANGED <<readVars, orchVars, tenVars, reqVars, cliVars>>

IngAsyncNext ==
    \/ \E c \in Calls : IngestAccept(c)
    \/ \E c \in Calls : IngestTask(c)

\* the requests and their tasks, every queued task being run in the end
SpecIngestAsync == IngInit /\ [][IngAsyncNext]_vars /\ WF_vars(IngAsyncNext)

\* C38: every valid profile of an accepted ingest request is eventually a
\* global_usernames row of the tenant that sent the request.
C38_AcceptedProfilesIngested ==
    \A c \in Calls :
        (gpc[c] = "accepted202")
            ~> (\A i \in SeqIds(valid_profiles(gin[c])) :
                    <<gbase[c], i>> \in DOMAIN pool)

\* ----------------------------------------------------------------------
\* the choices the singleSelect column progress_status of every queue
\* table is created with
progress_status_choices == {"pending", "followed", "unfollowed", "completed"}

\* C39: every state value written to a record of the external store (the
\* row's state on a push, unfollow in mark_unfollow_due) is one of the
\* choices the queue tables' state column is created with.
C39_WrittenStateIsChoice ==
    \A e \in airtable : e.status \in progress_status_choices

\* ======================================================================
\*            THE STORE CLIENT OF A PROCESS (get_supabase_client)
\* ======================================================================
\* kclient is the module global _supabase_client (0 is None, n > 0 the
\* n-th client object created), klock the holder of _supabase_lock (0 is
\* free), kmade the number of create_client calls that returned, kret[t]
\* what the call of thread t returned.

CliFrame ==
    /\ UNCHANGED <<jobVars, storeVars, selVars, distVars, delVars>>
    /\ UNCHANGED <<ingVars, pushVars, syncVars, markVars, cleanVars>>
    /\ UNCHANGED <<readVars, orchVars, tenVars, reqVars, bgVars>>

\* a thread calls get_supabase_client and makes the check outside the lock
CliFirstCheck(t) ==
    /\ kpc[t] \in {"idle", "returned", "raised"}
    /\ IF kclient # 0
       THEN /\ kret' = [kret EXCEPT ![t] = kclient]
            /\ kpc' = [kpc EXCEPT ![t] = "returned"]
       ELSE /\ kret' = [kret EXCEPT ![t] = 0]
            /\ kpc' = [kpc EXCEPT ![t] = "waiting"]
    /\ UNCHANGED <<klock, kclient, kmade>>
    /\ CliFrame

\* with _supabase_lock: the thread blocks until the lock is free
CliAcquire(t) ==
    /\ kpc[t] = "waiting"
    /\ klock = 0
    /\ klock' = t
    /\ kpc' = [kpc EXCEPT ![t] = "locked"]
    /\ UNCHANGED <<kclient, kmade, kret>>
    /\ CliFrame

\* a variant that goes on to create a client without the check inside the
\* lock
CliSecondCheck_Skip(t) ==
    /\ kpc[t] = "locked"
    /\ kpc' = [kpc EXCEPT ![t] = "creating"]
    /\ UNCHANGED <<klock, kclient, kmade, kret>>
    /\ CliFrame

\* the check inside the lock: another thread may have set the client
CliSecondCheck(t) ==
    /\ kpc[t] = "locked"
    /\ IF kclient # 0
       THEN /\ kret' = [kret EXCEPT ![t] = kclient]
            /\ kpc' = [kpc EXCEPT ![t] = "returned"]
            /\ klock' = 0
       ELSE /\ kpc' = [kpc EXCEPT ![t] = "creating"]
            /\ UNCHANGED <<klock, kret>>
    /\ UNCHANGED <<kclient, kmade>>
    /\ CliFrame

\* the environment is read and create_client called: ValueError (or an
\* error of create_client) leaves the with block, which frees the lock;
\* otherwise the new client is stored in the global
CliCreate(t) ==
    /\ kpc[t] = "creating"
    /\ \/ /\ kpc' = [kpc EXCEPT ![t] = "raised"]
          /\ klock' = 0
          /\ UNCHANGED <<kclient, kmade>>
       \/ /\ kmade' = kmade + 1
          /\ kclient' = kmade + 1
          /\ kpc' = [kpc EXCEPT ![t] = "assigned"]
          /\ klock' = klock
    /\ kret' = kret
    /\ CliFrame

\* return _supabase_client inside the with block: the global is read again
\* and the lock freed
CliReturn(t) ==
    /\ kpc[t] = "assigned"
    /\ kret' = [kret EXCEPT ![t] = kclient]
    /\ kpc' = [kpc EXCEPT ![t] = "returned"]
    /\ klock' = 0
    /\ UNCHANGED <<kclient, kmade>>
    /\ CliFrame

CliNext ==
    \/ \E t \in Threads : CliFirstCheck(t)
    \/ \E t \in Threads : CliAcquire(t)
    \/ \E t \in Threads : CliSecondCheck(t)
    \/ \E t \in Threads : CliCreate(t)
    \/ \E t \in Threads : CliReturn(t)

\* the threads of one process calling get_supabase_client again and again
SpecClient == JobInit /\ [][CliNext]_vars

\* C40: however the calls of the threads interleave, create_client returns
\* at most once in the process and every call that returns gives the same
\* client object.
C40_ClientCreatedOnce ==
    /\ kmade <= 1
    /\ \A t \in Threads : kpc[t] = "returned" => kret[t] = 1

\* one thread has its client while another, which saw None outside the
\* lock, now holds the lock with the client already set
C40_Witness ==
    \E t, u \in Threads :
        /\ t # u
        /\ kpc[t] = "returned" /\ kret[t] = 1
        /\ kpc[u] = "locked" /\ kclient = 1

====
